---- MODULE Spec2Model ----
(***************************************************************************)
(* A model of the data acquisition and statistics core of the crypto       *)
(* volatility dashboard: DataEngine (data_engine.py), CloudDataFetcher     *)
(* (cloud_data_fetcher.py) and the risk classifiers.                       *)
(*                                                                         *)
(* Python values are records tagged with their type.  Prices are powers of *)
(* two, so that a log return ln(p1/p0) is an integer number of ln 2.       *)
(***************************************************************************)
EXTENDS Integers, Sequences, FiniteSets, TLC

VARIABLES
    lru,        \* DataEngine.get_historical_data's lru_cache: <<[key, value]>>, least recent first
    call,       \* the last call of get_historical_data: arguments, result, requests sent
    ncalls,     \* number of operations run so far
    metrics,    \* the last run of generate_metrics_table
    cache,      \* CloudDataFetcher.cache: the set of entries [key, data, timestamp]
    now,        \* the clock, in seconds
    fetch,      \* the last call of CloudDataFetcher.get_historical_data
    fn,         \* the pure function applied to args, "none" before
    args,       \* the arguments of a pure function
    ret,        \* what the function returned
    sources,    \* what Binance and CoinGecko answer for each symbol during a run of the aggregator
    report,     \* the last run of CryptoReportGenerator.generate_comprehensive_report
    history,    \* the last call of CryptoAPI.get_price_history
    engine,     \* the fields last_update, status and data_cache of the DataEngine
    sync,       \* the last call of DataEngine.sync_data
    storage,    \* the CSV files of DataStorage, by symbol: None for a missing file
    trend,      \* the last call of DataFetcher.fetch_historical_data
    users,      \* the file users.json: None while it does not exist
    sessions    \* the registration of each dashboard session: its step and its locals

vars == <<lru, call, ncalls, metrics, cache, now, fetch, fn, args, ret, sources, report,
          history, engine, sync, storage, trend, users, sessions>>

----------------------------------------------------------------------------
(* Bounds of the model *)

MaxCalls == 2

MaxElapsed == 60

MaxPrices == 3

MaxReturns == 3

MaxReturn == 1

----------------------------------------------------------------------------
(* Python values *)

NoneValue == [type |-> "NoneType"]

DataFrame(rows) == [type |-> "DataFrame", rows |-> rows]

Raised(exc) == [type |-> "raised", exc |-> exc]

IsNone(v) == v.type = "NoneType"

IsDataFrame(v) == v.type = "DataFrame"

IsRaised(v) == v.type = "raised"

Min(a, b) == IF a < b THEN a ELSE b

\* df.tail(n)
tail(rows, n) ==
    IF Len(rows) > n THEN SubSeq(rows, Len(rows) - n + 1, Len(rows)) ELSE rows

----------------------------------------------------------------------------
(* DataEngine: configuration *)

cryptocurrencies ==
    << [id |-> "bitcoin",  symbol |-> "BTC",  name |-> "Bitcoin"],
       [id |-> "ethereum", symbol |-> "ETH",  name |-> "Ethereum"],
       [id |-> "solana",   symbol |-> "SOL",  name |-> "Solana"],
       [id |-> "cardano",  symbol |-> "ADA",  name |-> "Cardano"],
       [id |-> "dogecoin", symbol |-> "DOGE", name |-> "Dogecoin"] >>

binance_pairs ==
    [BTC |-> "BTCUSDT", ETH |-> "ETHUSDT", SOL |-> "SOLUSDT",
     ADA |-> "ADAUSDT", DOGE |-> "DOGEUSDT"]

Symbols == { cryptocurrencies[i].symbol : i \in DOMAIN cryptocurrencies }

\* next((c for c in self.cryptocurrencies if c["symbol"] == symbol), None)
HasCrypto(symbol) == \E i \in DOMAIN cryptocurrencies : cryptocurrencies[i].symbol = symbol

BinanceLimit == 100

CoinGeckoLimit == 90

TailLimit == 1000

LruMaxSize == 32

----------------------------------------------------------------------------
(* HTTP responses of the upstream sources.                                 *)
(* kind "network_error": requests.get raises.  Otherwise a response with a *)
(* status and a body that is invalid JSON, a JSON list (rows) or a JSON    *)
(* object (its keys; the rows under "prices" for CoinGecko).               *)

NetworkError == [kind |-> "network_error", status |-> 0, json |-> "invalid",
                 keys |-> {}, rows |-> <<>>]

HttpError(status) == [kind |-> "http", status |-> status, json |-> "object",
                      keys |-> {"error"}, rows |-> <<>>]

InvalidJson == [kind |-> "http", status |-> 200, json |-> "invalid",
                keys |-> {}, rows |-> <<>>]

JsonList(rows) == [kind |-> "http", status |-> 200, json |-> "list",
                   keys |-> {}, rows |-> rows]

JsonObject(keys, rows) == [kind |-> "http", status |-> 200, json |-> "object",
                           keys |-> keys, rows |-> rows]

\* response.raise_for_status()
raise_for_status(resp) == resp.status >= 400 /\ resp.status < 600

\* truth value of response.json(): an empty list or object is falsy
Truthy(resp) ==
    IF resp.json = "list" THEN resp.rows # <<>> ELSE resp.keys # {}

----------------------------------------------------------------------------
(* pd.to_numeric on a Binance close price, a decimal string (a sequence of *)
(* characters)                                                             *)

DigitVal == [c \in {"0", "1", "2", "3", "4", "5", "6", "7", "8", "9"} |->
               CASE c = "0" -> 0 [] c = "1" -> 1 [] c = "2" -> 2 [] c = "3" -> 3
                 [] c = "4" -> 4 [] c = "5" -> 5 [] c = "6" -> 6 [] c = "7" -> 7
                 [] c = "8" -> 8 [] c = "9" -> 9]

IsNumeric(s) == s # <<>> /\ \A i \in DOMAIN s : s[i] \in DOMAIN DigitVal

RECURSIVE to_numeric(_)
to_numeric(s) ==
    IF s = <<>> THEN 0
    ELSE 10 * to_numeric(SubSeq(s, 1, Len(s) - 1)) + DigitVal[s[Len(s)]]

----------------------------------------------------------------------------
(* DataEngine.get_historical_data *)

\* The first try block: Binance klines.  outcome "return": return df[['price']];
\* "pass": the payload was empty, no return; "except": an exception was caught.
binance_try(resp) ==
    IF resp.kind = "network_error" THEN [outcome |-> "except", value |-> NoneValue]
    ELSE IF raise_for_status(resp) THEN [outcome |-> "except", value |-> NoneValue]
    ELSE IF resp.json = "invalid" THEN [outcome |-> "except", value |-> NoneValue]
    ELSE IF ~Truthy(resp) THEN [outcome |-> "pass", value |-> NoneValue]
    ELSE IF resp.json # "list" THEN [outcome |-> "except", value |-> NoneValue]
    ELSE IF \E i \in DOMAIN resp.rows : ~IsNumeric(resp.rows[i].close)
         THEN [outcome |-> "except", value |-> NoneValue]
    ELSE [outcome |-> "return",
          value |-> DataFrame(tail([i \in DOMAIN resp.rows |->
                                       [date  |-> resp.rows[i].timestamp,
                                        price |-> to_numeric(resp.rows[i].close)]],
                                   TailLimit))]

\* The second try block, after the lookup of the coin: CoinGecko market_chart.
coingecko_try(resp) ==
    IF resp.kind = "network_error" THEN NoneValue
    ELSE IF raise_for_status(resp) THEN NoneValue
    ELSE IF resp.json = "invalid" THEN NoneValue
    ELSE IF resp.json # "object" \/ "prices" \notin resp.keys THEN NoneValue
    ELSE DataFrame(tail([i \in DOMAIN resp.rows |->
                            [date  |-> resp.rows[i].timestamp,
                             price |-> resp.rows[i].price]],
                        TailLimit))

BinanceRequest(days, resp) ==
    [source |-> "binance", param |-> Min(days, BinanceLimit), response |-> resp]

CoinGeckoRequest(days, resp) ==
    [source |-> "coingecko", param |-> Min(days, CoinGeckoLimit), response |-> resp]

\* Faulty variant: CoinGecko is asked first, Binance is the fallback.
body_coingecko_first(symbol, days, offers) ==
    LET g == IF HasCrypto(symbol) THEN coingecko_try(offers.coingecko) ELSE NoneValue
        greq == IF HasCrypto(symbol)
                THEN << CoinGeckoRequest(days, offers.coingecko) >> ELSE <<>>
        b == binance_try(offers.binance)
    IN  IF IsDataFrame(g) /\ g.rows # <<>> THEN [value |-> g, requests |-> greq]
        ELSE IF symbol \in DOMAIN binance_pairs
        THEN [value |-> b.value,
              requests |-> greq \o << BinanceRequest(days, offers.binance) >>]
        ELSE [value |-> NoneValue, requests |-> greq]

\* Faulty variant: the CoinGecko block has no handler, its exception reaches the caller.
body_coingecko_unguarded(symbol, days, offers) ==
    LET hasPair == symbol \in DOMAIN binance_pairs
        b == binance_try(offers.binance)
        breq == IF hasPair THEN << BinanceRequest(days, offers.binance) >> ELSE <<>>
        g == coingecko_try(offers.coingecko)
    IN  IF hasPair /\ b.outcome = "return" THEN [value |-> b.value, requests |-> breq]
        ELSE IF ~HasCrypto(symbol) THEN [value |-> NoneValue, requests |-> breq]
        ELSE [value |-> IF IsNone(g) THEN Raised("Exception") ELSE g,
              requests |-> breq \o << CoinGeckoRequest(days, offers.coingecko) >>]

\* The body of get_historical_data, run on a cache miss.  offers: the response
\* each source gives if it is asked.  requests: the requests sent, in order.
get_historical_data_body(symbol, days, offers) ==
    LET hasPair == symbol \in DOMAIN binance_pairs
        b == binance_try(offers.binance)
        breq == IF hasPair THEN << BinanceRequest(days, offers.binance) >> ELSE <<>>
    IN  IF hasPair /\ b.outcome = "return" THEN [value |-> b.value, requests |-> breq]
        ELSE IF ~HasCrypto(symbol) THEN [value |-> NoneValue, requests |-> breq]
        ELSE [value |-> coingecko_try(offers.coingecko),
              requests |-> breq \o << CoinGeckoRequest(days, offers.coingecko) >>]

\* functools.lru_cache: the key is made of the positional and keyword arguments
CacheKey(symbol, days, kw) == [symbol |-> symbol, days |-> days, kw |-> kw]

LruIndex(entries, key) ==
    IF \E i \in DOMAIN entries : entries[i].key = key
    THEN CHOOSE i \in DOMAIN entries : entries[i].key = key
    ELSE 0

LruHit(entries, key) == LruIndex(entries, key) # 0

Remove(s, i) == SubSeq(s, 1, i - 1) \o SubSeq(s, i + 1, Len(s))

\* @lru_cache(maxsize=32) around the body: a hit returns the stored result and
\* sends nothing; a miss runs the body and stores what it returns (None too);
\* an exception is not stored.
get_historical_data(entries, symbol, days, kw, offers) ==
    LET key == CacheKey(symbol, days, kw)
        i == LruIndex(entries, key)
        r == get_historical_data_body(symbol, days, offers)
        stored == Append(entries, [key |-> key, value |-> r.value])
    IN  IF i # 0
        THEN [value |-> entries[i].value, requests |-> <<>>,
              lru |-> Append(Remove(entries, i), entries[i])]
        ELSE [value |-> r.value, requests |-> r.requests,
              lru |-> IF IsRaised(r.value) THEN entries
                      ELSE IF Len(stored) > LruMaxSize THEN Tail(stored)
                      ELSE stored]

----------------------------------------------------------------------------
(* Numbers.  A return is an integer number of ln 2; a quotient of sums of  *)
(* returns is an exact fraction [num, den] in lowest terms, den > 0.       *)

Abs(n) == IF n < 0 THEN -n ELSE n

Sign(n) == IF n < 0 THEN -1 ELSE IF n > 0 THEN 1 ELSE 0

RECURSIVE GCD(_, _)
GCD(a, b) == IF b = 0 THEN a ELSE GCD(b, a % b)

Rat(n, d) ==
    LET g == GCD(Abs(n), Abs(d))
    IN  [num |-> Sign(d) * (n \div g), den |-> Abs(d) \div g]

RECURSIVE Log2(_)
Log2(n) == IF n <= 1 THEN 0 ELSE 1 + Log2(n \div 2)

RECURSIVE Sum(_)
Sum(s) == IF s = <<>> THEN 0 ELSE Head(s) + Sum(Tail(s))

Products(a, b) == [i \in DOMAIN a |-> a[i] * b[i]]

\* n * n times the population covariance of a and b: n * sum(a b) - sum(a) sum(b)
Comoment(a, b) == Len(a) * Sum(Products(a, b)) - Sum(a) * Sum(b)

ndarray(values) == [type |-> "ndarray", values |-> values]

----------------------------------------------------------------------------
(* DataEngine: statistics *)

\* Faulty variant: the guard lets a series of one price through.
log_returns_short_guard(price_data) ==
    IF IsNone(price_data) \/ Len(price_data.rows) < 1 THEN NoneValue
    ELSE DataFrame(tail([i \in 1..(Len(price_data.rows) - 1) |->
            [date |-> price_data.rows[i + 1].date,
             log_return |-> Log2(price_data.rows[i + 1].price)
                              - Log2(price_data.rows[i].price),
             simple_return |-> Rat(price_data.rows[i + 1].price - price_data.rows[i].price,
                                   price_data.rows[i].price)]],
          TailLimit))

\* Faulty variant: a return is indexed by the earlier price of its pair.
log_returns_indexed_by_earlier(price_data) ==
    IF IsNone(price_data) \/ Len(price_data.rows) < 2 THEN NoneValue
    ELSE DataFrame(tail([i \in 1..(Len(price_data.rows) - 1) |->
            [date |-> price_data.rows[i].date,
             log_return |-> Log2(price_data.rows[i + 1].price)
                              - Log2(price_data.rows[i].price),
             simple_return |-> Rat(price_data.rows[i + 1].price - price_data.rows[i].price,
                                   price_data.rows[i].price)]],
          TailLimit))

\* calculate_log_returns: one row per pair of consecutive prices, indexed by
\* price_data.index[1:]
calculate_log_returns(price_data) ==
    IF IsNone(price_data) \/ Len(price_data.rows) < 2 THEN NoneValue
    ELSE DataFrame(tail([i \in 1..(Len(price_data.rows) - 1) |->
            [date |-> price_data.rows[i + 1].date,
             log_return |-> Log2(price_data.rows[i + 1].price)
                              - Log2(price_data.rows[i].price),
             simple_return |-> Rat(price_data.rows[i + 1].price - price_data.rows[i].price,
                                   price_data.rows[i].price)]],
          TailLimit))

\* returns_data['log_return'].values
log_return_values(returns_data) ==
    ndarray([i \in DOMAIN returns_data.rows |-> returns_data.rows[i].log_return])

\* np.cov(a, b)[0][1]: the sample covariance, divisor n - 1
cov(a, b) == Rat(Comoment(a, b), Len(a) * (Len(a) - 1))

\* np.var(b): the population variance, divisor n
var(b) == Rat(Comoment(b, b), Len(b) * Len(b))

\* np.corrcoef(a, b)[0][1] = sign * sqrt(square); nan when a or b is constant
corrcoef(a, b) ==
    IF Comoment(a, a) = 0 \/ Comoment(b, b) = 0
    THEN [nan |-> TRUE, sign |-> 0, square |-> Rat(0, 1)]
    ELSE [nan |-> FALSE, sign |-> Sign(Comoment(a, b)),
          square |-> Rat(Comoment(a, b) * Comoment(a, b),
                         Comoment(a, a) * Comoment(b, b))]

\* calculate_beta.  The returns of the model hold no NaN, so valid_mask keeps
\* every entry.  The result is None, the int 0, or the dict of the metrics.
calculate_beta(asset_returns, benchmark_returns) ==
    IF IsNone(asset_returns) \/ IsNone(benchmark_returns) THEN NoneValue
    ELSE IF Len(asset_returns.values) # Len(benchmark_returns.values) THEN NoneValue
    ELSE LET asset_clean == asset_returns.values
             benchmark_clean == benchmark_returns.values
             covariance == cov(asset_clean, benchmark_clean)
             benchmark_variance == var(benchmark_clean)
             correlation == corrcoef(asset_clean, benchmark_clean)
         IN  IF Len(asset_clean) < 2 THEN NoneValue
             ELSE IF benchmark_variance.num = 0 THEN [type |-> "int", value |-> 0]
             ELSE [type |-> "dict",
                   beta |-> Rat(covariance.num * benchmark_variance.den,
                                covariance.den * benchmark_variance.num),
                   correlation |-> correlation,
                   r_squared |-> IF ~correlation.nan THEN correlation.square
                                 ELSE Rat(0, 1),
                   covariance |-> covariance,
                   benchmark_variance |-> benchmark_variance]

\* truth value of what calculate_beta returned: None and 0 are falsy
TruthyValue(v) == v.type = "dict"

DaysPerYear == 365

\* Series.std() (ddof = 1), given by its square: nan for a single entry
std(x) ==
    IF Len(x) < 2 THEN [nan |-> TRUE, square |-> Rat(0, 1)]
    ELSE [nan |-> FALSE, square |-> Rat(Comoment(x, x), Len(x) * Len(x) * (Len(x) - 1))]

\* v * np.sqrt(365), given by its square
annualized(v) ==
    [nan |-> v.nan, square |-> Rat(DaysPerYear * v.square.num, v.square.den)]

\* calculate_volatility(returns_data), annualize = True
calculate_volatility(returns_data) ==
    IF IsNone(returns_data) \/ Len(returns_data.rows) = 0 THEN NoneValue
    ELSE [type |-> "dict",
          daily_volatility |-> std(log_return_values(returns_data).values),
          annualized_volatility |->
              annualized(std(log_return_values(returns_data).values))]

----------------------------------------------------------------------------
(* DataEngine.generate_metrics_table *)

MetricsDays == 90

One == Rat(1, 1)

Zero == Rat(0, 1)

\* Faulty variant: beta is computed for the benchmark itself as well.
metrics_row_beta_for_benchmark(crypto, price_data, benchmark_returns, benchmark_symbol) ==
    LET compiled(returns_data, beta_metrics) ==
            [kind |-> "row",
             row |-> [symbol |-> crypto.symbol,
                      name |-> crypto.name,
                      current_price |-> price_data.rows[Len(price_data.rows)].price,
                      beta |-> IF TruthyValue(beta_metrics)
                               THEN beta_metrics.beta ELSE One,
                      correlation_vs_btc |->
                          IF TruthyValue(beta_metrics) THEN beta_metrics.correlation
                          ELSE [nan |-> FALSE, sign |-> 0, square |-> Zero],
                      r_squared |-> IF TruthyValue(beta_metrics)
                                    THEN beta_metrics.r_squared ELSE Zero,
                      data_points |-> Len(returns_data.rows)],
             beta_call |-> ~IsNone(benchmark_returns)]
        with_returns(returns_data) ==
            IF IsNone(returns_data) THEN [kind |-> "continue"]
            ELSE IF price_data.rows = <<>> \/ returns_data.rows = <<>>
            THEN [kind |-> "raise"]
            ELSE compiled(returns_data,
                          IF ~IsNone(benchmark_returns)
                          THEN calculate_beta(log_return_values(returns_data),
                                              log_return_values(benchmark_returns))
                          ELSE NoneValue)
    IN  IF IsNone(price_data) THEN [kind |-> "continue"]
        ELSE with_returns(calculate_log_returns(price_data))

\* One pass of the loop body, price_data being resolved: "continue" (no row),
\* "row", or "raise" (iloc[-1] of an empty frame).  The volatility and Sharpe
\* columns, computed from the same returns, are not represented.
metrics_row(crypto, price_data, benchmark_returns, benchmark_symbol) ==
    LET compiled(returns_data, beta_metrics) ==
            [kind |-> "row",
             row |-> [symbol |-> crypto.symbol,
                      name |-> crypto.name,
                      current_price |-> price_data.rows[Len(price_data.rows)].price,
                      beta |-> IF TruthyValue(beta_metrics)
                               THEN beta_metrics.beta ELSE One,
                      correlation_vs_btc |->
                          IF TruthyValue(beta_metrics) THEN beta_metrics.correlation
                          ELSE [nan |-> FALSE, sign |-> 0, square |-> Zero],
                      r_squared |-> IF TruthyValue(beta_metrics)
                                    THEN beta_metrics.r_squared ELSE Zero,
                      data_points |-> Len(returns_data.rows)],
             beta_call |-> ~IsNone(benchmark_returns)
                              /\ crypto.symbol # benchmark_symbol]
        with_returns(returns_data) ==
            IF IsNone(returns_data) THEN [kind |-> "continue"]
            ELSE IF price_data.rows = <<>> \/ returns_data.rows = <<>>
            THEN [kind |-> "raise"]
            ELSE compiled(returns_data,
                          IF ~IsNone(benchmark_returns) /\ crypto.symbol # benchmark_symbol
                          THEN calculate_beta(log_return_values(returns_data),
                                              log_return_values(benchmark_returns))
                          ELSE NoneValue)
    IN  IF IsNone(price_data) THEN [kind |-> "continue"]
        ELSE with_returns(calculate_log_returns(price_data))

\* for crypto in self.cryptocurrencies, from the i-th on, the cache threaded
\* through the calls of get_historical_data
RECURSIVE metrics_loop(_, _, _, _, _)
metrics_loop(i, entries, benchmark_symbol, benchmark_returns, offers) ==
    LET append(r, m, rest) ==
            IF IsRaised(r.value) \/ m.kind = "raise"
            THEN [rows |-> <<>>, lru |-> r.lru, requests |-> r.requests,
                  raised |-> TRUE, beta_calls |-> <<>>]
            ELSE [rows |-> (IF m.kind = "row" THEN << m.row >> ELSE <<>>) \o rest.rows,
                  beta_calls |-> (IF m.kind = "row" /\ m.beta_call
                                  THEN << m.row.symbol >> ELSE <<>>) \o rest.beta_calls,
                  lru |-> rest.lru,
                  requests |-> r.requests \o rest.requests,
                  raised |-> rest.raised]
        pass(crypto, r) ==
            append(r,
                   metrics_row(crypto, r.value, benchmark_returns, benchmark_symbol),
                   metrics_loop(i + 1, r.lru, benchmark_symbol, benchmark_returns,
                                offers))
    IN  IF i > Len(cryptocurrencies)
        THEN [rows |-> <<>>, lru |-> entries, requests |-> <<>>, raised |-> FALSE,
              beta_calls |-> <<>>]
        ELSE pass(cryptocurrencies[i],
                  get_historical_data(entries, cryptocurrencies[i].symbol, MetricsDays,
                                      TRUE, offers[cryptocurrencies[i].symbol]))

\* generate_metrics_table(benchmark_symbol).  The rows are kept in the order of
\* the loop; the final sort by Sharpe ratio, which permutes them, and the
\* risk_level column are not represented.
generate_metrics_table(entries, benchmark_symbol, offers) ==
    LET table(b, loop) ==
            [value |-> IF loop.raised THEN Raised("IndexError")
                       ELSE DataFrame(loop.rows),
             lru |-> loop.lru,
             requests |-> b.requests \o loop.requests,
             beta_calls |-> loop.beta_calls]
        with_benchmark(b) ==
            IF IsRaised(b.value)
            THEN [value |-> b.value, lru |-> b.lru, requests |-> b.requests,
                  beta_calls |-> <<>>]
            ELSE table(b, metrics_loop(1, b.lru, benchmark_symbol,
                                       IF ~IsNone(b.value)
                                       THEN calculate_log_returns(b.value)
                                       ELSE NoneValue,
                                       offers))
    IN  with_benchmark(get_historical_data(entries, benchmark_symbol, MetricsDays, TRUE,
                                           offers[benchmark_symbol]))

----------------------------------------------------------------------------
(* Risk classification.  Volatilities and volatility thresholds are in     *)
(* percent, Sharpe ratios and Sharpe thresholds in tenths.  A NaN          *)
(* volatility or Sharpe ratio is not represented.                          *)

\* DataEngine._classify_risk: thresholds 0.3, 0.6, 1.0
classify_risk(volatility) ==
    IF volatility < 30 THEN "Low Risk"
    ELSE IF volatility < 60 THEN "Medium Risk"
    ELSE IF volatility < 100 THEN "High Risk"
    ELSE "Very High Risk"

\* np.select(conditions, choices, default): the choice of the first true condition
select(conditions, choices, default) ==
    IF \E i \in DOMAIN conditions : conditions[i]
    THEN choices[CHOOSE i \in DOMAIN conditions :
                    conditions[i] /\ \A j \in 1..(i - 1) : ~conditions[j]]
    ELSE default

volatility_risk(v, vol_low, vol_medium, vol_high) ==
    select(<< v <= vol_low,
              v > vol_low /\ v <= vol_medium,
              v > vol_medium /\ v <= vol_high,
              v > vol_high >>,
           << "Low Risk", "Medium Risk", "High Risk", "Very High Risk" >>,
           "Unknown")

sharpe_performance(x, sharpe_excellent, sharpe_good, sharpe_poor) ==
    select(<< x >= sharpe_excellent,
              x >= sharpe_good /\ x < sharpe_excellent,
              x >= sharpe_poor /\ x < sharpe_good,
              x < sharpe_poor >>,
           << "Excellent", "Good", "Poor", "Very Poor" >>,
           "Unknown")

\* Faulty variant: a Sharpe ratio below -2 no longer forces Very High Risk.
custom_without_forced_level(metrics_df, vol_low, vol_medium, vol_high, sharpe_excellent, sharpe_good, sharpe_poor) ==
    [i \in DOMAIN metrics_df |->
        LET row == metrics_df[i]
            vr == volatility_risk(row.annualized_volatility, vol_low, vol_medium, vol_high)
        IN  [annualized_volatility |-> row.annualized_volatility,
             sharpe_ratio |-> row.sharpe_ratio,
             volatility_risk |-> vr,
             sharpe_performance |->
                 sharpe_performance(row.sharpe_ratio, sharpe_excellent, sharpe_good,
                                    sharpe_poor),
             risk_level |-> IF row.sharpe_ratio > 20 /\ vr = "Medium Risk"
                            THEN "Low Risk" ELSE vr]]

\* Faulty variant: a Sharpe ratio above 2 downgrades High Risk instead of Medium Risk.
custom_downgrading_high(metrics_df, vol_low, vol_medium, vol_high, sharpe_excellent, sharpe_good, sharpe_poor) ==
    [i \in DOMAIN metrics_df |->
        LET row == metrics_df[i]
            vr == volatility_risk(row.annualized_volatility, vol_low, vol_medium, vol_high)
        IN  [annualized_volatility |-> row.annualized_volatility,
             sharpe_ratio |-> row.sharpe_ratio,
             volatility_risk |-> vr,
             sharpe_performance |->
                 sharpe_performance(row.sharpe_ratio, sharpe_excellent, sharpe_good,
                                    sharpe_poor),
             risk_level |-> IF row.sharpe_ratio < -20 THEN "Very High Risk"
                            ELSE IF row.sharpe_ratio > 20 /\ vr = "High Risk"
                            THEN "Low Risk" ELSE vr]]

\* apply_custom_risk_classification: the rows of the frame it returns
apply_custom_risk_classification(metrics_df, vol_low, vol_medium, vol_high, sharpe_excellent, sharpe_good, sharpe_poor) ==
    [i \in DOMAIN metrics_df |->
        LET row == metrics_df[i]
            vr == volatility_risk(row.annualized_volatility, vol_low, vol_medium, vol_high)
        IN  [annualized_volatility |-> row.annualized_volatility,
             sharpe_ratio |-> row.sharpe_ratio,
             volatility_risk |-> vr,
             sharpe_performance |->
                 sharpe_performance(row.sharpe_ratio, sharpe_excellent, sharpe_good,
                                    sharpe_poor),
             risk_level |-> IF row.sharpe_ratio < -20 THEN "Very High Risk"
                            ELSE IF row.sharpe_ratio > 20 /\ vr = "Medium Risk"
                            THEN "Low Risk" ELSE vr]]

----------------------------------------------------------------------------
(* CloudDataFetcher *)

cache_timeout == 300

max_retries == 3

SecondsPerMinute == 60

coin_ids ==
    [BTC |-> "bitcoin", ETH |-> "ethereum", SOL |-> "solana",
     ADA |-> "cardano", DOGE |-> "dogecoin"]

\* get_cache_key at time t: f"{symbol}_{days}_{now:%Y%m%d_%H%M}", the clock
\* cut to the minute
get_cache_key(symbol, days, t) ==
    [symbol |-> symbol, days |-> days, minute |-> t \div SecondsPerMinute]

\* is_cache_valid at time t
is_cache_valid(entries, cache_key, t) ==
    \E e \in entries : e.key = cache_key /\ t - e.timestamp < cache_timeout

\* _fetch_from_binance: None for a symbol without pair, an empty payload or
\* any exception
fetch_from_binance(symbol, days, resp) ==
    IF symbol \notin DOMAIN binance_pairs
    THEN [value |-> NoneValue, requests |-> <<>>]
    ELSE [value |-> IF binance_try(resp).outcome = "return"
                    THEN binance_try(resp).value ELSE NoneValue,
          requests |-> << BinanceRequest(days, resp) >>]

\* _fetch_from_coingecko: None for a symbol without coin id or any exception
fetch_from_coingecko(symbol, days, resp) ==
    IF symbol \notin DOMAIN coin_ids
    THEN [value |-> NoneValue, requests |-> <<>>]
    ELSE [value |-> coingecko_try(resp),
          requests |-> << CoinGeckoRequest(days, resp) >>]

\* Faulty variant: the loop runs one attempt too many.
RECURSIVE fetch_attempts_one_more(_, _, _, _)
fetch_attempts_one_more(attempt, symbol, days, offers) ==
    IF attempt > max_retries
    THEN [value |-> NoneValue, requests |-> <<>>, fetched |-> FALSE]
    ELSE LET o == offers[Min(attempt + 1, max_retries)]
             b == fetch_from_binance(symbol, days, o.binance)
             g == fetch_from_coingecko(symbol, days, o.coingecko)
             rest == fetch_attempts_one_more(attempt + 1, symbol, days, offers)
         IN  IF ~IsNone(b.value)
             THEN [value |-> b.value, requests |-> b.requests, fetched |-> TRUE]
             ELSE IF ~IsNone(g.value)
             THEN [value |-> g.value, requests |-> b.requests \o g.requests,
                   fetched |-> TRUE]
             ELSE [value |-> rest.value,
                   requests |-> b.requests \o g.requests \o rest.requests,
                   fetched |-> rest.fetched]

\* for attempt in range(self.max_retries), from attempt on.  Both fetchers
\* swallow their exceptions, so the handler of the loop is never entered and
\* an attempt in which both return None is followed by the next attempt.
\* offers[k]: what the sources answer in the k-th attempt.
RECURSIVE fetch_attempts(_, _, _, _)
fetch_attempts(attempt, symbol, days, offers) ==
    IF attempt >= max_retries
    THEN [value |-> NoneValue, requests |-> <<>>, fetched |-> FALSE]
    ELSE LET b == fetch_from_binance(symbol, days, offers[attempt + 1].binance)
             g == fetch_from_coingecko(symbol, days, offers[attempt + 1].coingecko)
             rest == fetch_attempts(attempt + 1, symbol, days, offers)
         IN  IF ~IsNone(b.value)
             THEN [value |-> b.value, requests |-> b.requests, fetched |-> TRUE]
             ELSE IF ~IsNone(g.value)
             THEN [value |-> g.value, requests |-> b.requests \o g.requests,
                   fetched |-> TRUE]
             ELSE [value |-> rest.value,
                   requests |-> b.requests \o g.requests \o rest.requests,
                   fetched |-> rest.fetched]

\* CloudDataFetcher.get_historical_data at time t; every reading of the clock
\* within the call gives t
cloud_get_historical_data(entries, t, symbol, days, offers) ==
    LET cache_key == get_cache_key(symbol, days, t)
        r == fetch_attempts(0, symbol, days, offers)
    IN  IF is_cache_valid(entries, cache_key, t)
        THEN [value |-> (CHOOSE e \in entries : e.key = cache_key).data,
              requests |-> <<>>, cache |-> entries]
        ELSE [value |-> r.value, requests |-> r.requests,
              cache |-> IF r.fetched
                        THEN {e \in entries : e.key # cache_key}
                             \cup {[key |-> cache_key, data |-> r.value,
                                    timestamp |-> t]}
                        ELSE entries]

----------------------------------------------------------------------------
(* Inputs of the resolver *)

ResolverSymbols == {"BTC", "XRP"}

ResolverDays == {30, 120}

BinanceRows == << [timestamp |-> 1, close |-> <<"1">>],
                  [timestamp |-> 2, close |-> <<"1", "6">>] >>

CoinGeckoRows == << [timestamp |-> 1, price |-> 4],
                    [timestamp |-> 2, price |-> 8] >>

\* payloads whose rows are out of order and repeat a timestamp
UnorderedBinanceRows == << [timestamp |-> 2, close |-> <<"1", "6">>],
                           [timestamp |-> 1, close |-> <<"1">>],
                           [timestamp |-> 1, close |-> <<"2">>] >>

UnorderedCoinGeckoRows == << [timestamp |-> 2, price |-> 8],
                             [timestamp |-> 1, price |-> 4],
                             [timestamp |-> 1, price |-> 2] >>

ResolverBinance ==
    {NetworkError, HttpError(500), InvalidJson, JsonObject({"code", "msg"}, <<>>),
     JsonList(<<>>), JsonList(BinanceRows), JsonList(UnorderedBinanceRows)}

ResolverCoinGecko ==
    {NetworkError, HttpError(500), JsonObject({"status"}, <<>>),
     JsonObject({"prices"}, <<>>), JsonObject({"prices"}, CoinGeckoRows),
     JsonObject({"prices"}, UnorderedCoinGeckoRows)}

ResolverOffers == [binance : ResolverBinance, coingecko : ResolverCoinGecko]

\* some source would answer the symbol with a non-empty parsable payload
Available(symbol, offers) ==
    \/ symbol \in DOMAIN binance_pairs /\ binance_try(offers.binance).outcome = "return"
    \/ /\ HasCrypto(symbol)
       /\ IsDataFrame(coingecko_try(offers.coingecko))
       /\ coingecko_try(offers.coingecko).rows # <<>>

NoCall == [op |-> "none", symbol |-> "", days |-> 0, value |-> NoneValue,
           requests |-> <<>>, hit |-> FALSE, available |-> FALSE, prev |-> NoneValue]

NoMetrics == [op |-> "none"]

NoFetch == [op |-> "none"]

NoSources == <<>>

NoReport == [op |-> "none"]

NoHistory == [op |-> "none"]

NoSync == [op |-> "none"]

NoStorage == <<>>

NoTrend == [op |-> "none"]

NoSessions == <<>>

\* DataEngine.__init__: last_update = None, data_cache = {}, status = "idle"
NewEngine == [last_update |-> NoneValue, data_cache |-> <<>>, status |-> "idle"]

----------------------------------------------------------------------------
(* The resolver: calls of DataEngine.get_historical_data on one engine *)

InitResolver ==
    /\ lru = <<>>
    /\ call = NoCall
    /\ ncalls = 0
    /\ metrics = NoMetrics
    /\ cache = {}
    /\ now = 0
    /\ fetch = NoFetch
    /\ fn = "none"
    /\ args = NoneValue
    /\ ret = NoneValue
    /\ sources = NoSources
    /\ report = NoReport
    /\ history = NoHistory
    /\ engine = NewEngine
    /\ sync = NoSync
    /\ storage = NoStorage
    /\ trend = NoTrend
    /\ users = NoneValue
    /\ sessions = NoSessions

GetHistoricalData ==
    /\ ncalls < MaxCalls
    /\ \E symbol \in ResolverSymbols, days \in ResolverDays, offers \in ResolverOffers :
          LET r == get_historical_data(lru, symbol, days, FALSE, offers)
          IN  /\ lru' = r.lru
              /\ call' = [op |-> "get_historical_data", symbol |-> symbol,
                          days |-> days, value |-> r.value, requests |-> r.requests,
                          hit |-> LruHit(lru, CacheKey(symbol, days, FALSE)),
                          available |-> Available(symbol, offers),
                          prev |-> IF call.op = "get_historical_data"
                                      /\ call.symbol = symbol /\ call.days = days
                                   THEN [type |-> "call", value |-> call.value,
                                         hit |-> call.hit]
                                   ELSE NoneValue]
              /\ ncalls' = ncalls + 1
    /\ UNCHANGED <<metrics, cache, now, fetch, fn, args, ret, sources, report, history, engine, sync,
                   storage, trend, users, sessions>>

NextResolver == GetHistoricalData

SpecResolver == InitResolver /\ [][NextResolver]_vars

----------------------------------------------------------------------------
(* The aggregator: runs of DataEngine.generate_metrics_table on one engine *)

Benchmarks == {"BTC", "ETH"}

ConstPrices(n) == [i \in 1..n |-> 4]

AltPrices(n) == [i \in 1..n |-> IF i % 2 = 1 THEN 1 ELSE 2]

BinanceRowsOf(n) == [i \in 1..n |-> [timestamp |-> i, close |-> <<"4">>]]

CoinGeckoRowsOf(prices) ==
    [i \in DOMAIN prices |-> [timestamp |-> i, price |-> prices[i]]]

\* What the two sources answer for one symbol: both fail; Binance fails and
\* CoinGecko serves 0..MaxPrices alternating prices; Binance serves MaxPrices
\* constant prices.
MetricsOffers ==
    {[binance |-> NetworkError, coingecko |-> HttpError(500)]}
    \cup {[binance |-> NetworkError,
           coingecko |-> JsonObject({"prices"}, CoinGeckoRowsOf(AltPrices(n)))] :
             n \in 0..MaxPrices}
    \cup {[binance |-> JsonList(BinanceRowsOf(MaxPrices)), coingecko |-> NetworkError]}

MetricsKey(symbol) == CacheKey(symbol, MetricsDays, TRUE)

\* A fresh engine; the sources answer the same way during the whole run.
InitMetrics ==
    /\ lru = <<>>
    /\ call = NoCall
    /\ ncalls = 0
    /\ metrics = NoMetrics
    /\ cache = {}
    /\ now = 0
    /\ fetch = NoFetch
    /\ fn = "none"
    /\ args = NoneValue
    /\ ret = NoneValue
    /\ sources \in [Symbols -> MetricsOffers]
    /\ report = NoReport
    /\ history = NoHistory
    /\ engine = NewEngine
    /\ sync = NoSync
    /\ storage = NoStorage
    /\ trend = NoTrend
    /\ users = NoneValue
    /\ sessions = NoSessions

GenerateMetricsTable ==
    /\ ncalls < MaxCalls
    /\ \E benchmark \in Benchmarks :
         LET record(r) ==
                 /\ lru' = r.lru
                 /\ metrics' = [op |-> "generate_metrics_table",
                                benchmark |-> benchmark,
                                value |-> r.value,
                                requests |-> r.requests,
                                beta_calls |-> r.beta_calls]
         IN  record(generate_metrics_table(lru, benchmark, sources))
    /\ ncalls' = ncalls + 1
    /\ UNCHANGED <<call, cache, now, fetch, fn, args, ret, sources, report, history, engine, sync,
                   storage, trend, users, sessions>>

NextMetrics == GenerateMetricsTable

SpecMetrics == InitMetrics /\ [][NextMetrics]_vars

----------------------------------------------------------------------------
(* The risk classifiers, applied to a frame of metrics rows *)

VolStep == 10

MaxVolSteps == 11

Volatilities == {VolStep * k : k \in 0..MaxVolSteps}

SharpeRatios == {-30, -20, 0, 20, 30}

RiskRows == [annualized_volatility : Volatilities, sharpe_ratio : SharpeRatios]

\* frames of one row and of two rows
RiskFrames ==
    {<< r >> : r \in RiskRows} \cup {<< r[1], r[2] >> : r \in RiskRows \X RiskRows}

\* vol_low, vol_medium, vol_high: the slider defaults, equal neighbours, and
\* triples out of order
VolThresholds ==
    {<<30, 60, 100>>, <<30, 60, 60>>, <<30, 100, 100>>, <<60, 60, 60>>,
     <<60, 60, 100>>, <<60, 100, 100>>, <<30, 100, 60>>, <<60, 100, 60>>}

\* sharpe_excellent, sharpe_good, sharpe_poor: the slider defaults
SharpeThresholds == {<<15, 5, -5>>}

RiskArgs ==
    [for : {"risk"}, metrics_df : RiskFrames, vol : VolThresholds,
     sharpe : SharpeThresholds]

InitRisk ==
    /\ lru = <<>>
    /\ call = NoCall
    /\ ncalls = 0
    /\ metrics = NoMetrics
    /\ cache = {}
    /\ now = 0
    /\ fetch = NoFetch
    /\ fn = "none"
    /\ args \in RiskArgs
    /\ ret = NoneValue
    /\ sources = NoSources
    /\ report = NoReport
    /\ history = NoHistory
    /\ engine = NewEngine
    /\ sync = NoSync
    /\ storage = NoStorage
    /\ trend = NoTrend
    /\ users = NoneValue
    /\ sessions = NoSessions

ClassifyRisk ==
    /\ fn = "none"
    /\ fn' = "_classify_risk"
    /\ ret' = [i \in DOMAIN args.metrics_df |->
                 [risk_level |-> classify_risk(args.metrics_df[i].annualized_volatility)]]
    /\ UNCHANGED <<lru, call, ncalls, metrics, cache, now, fetch, args, sources, report, history, engine, sync,
                   storage, trend, users, sessions>>

ApplyCustomRiskClassification ==
    /\ fn = "none"
    /\ fn' = "apply_custom_risk_classification"
    /\ ret' = apply_custom_risk_classification(
                 args.metrics_df, args.vol[1], args.vol[2], args.vol[3],
                 args.sharpe[1], args.sharpe[2], args.sharpe[3])
    /\ UNCHANGED <<lru, call, ncalls, metrics, cache, now, fetch, args, sources, report, history, engine, sync,
                   storage, trend, users, sessions>>

NextRisk == ClassifyRisk \/ ApplyCustomRiskClassification

SpecRisk == InitRisk /\ [][NextRisk]_vars

----------------------------------------------------------------------------
(* The statistics functions, applied to bounded inputs *)

ReturnArrays ==
    UNION {[1..n -> (-MaxReturn)..MaxReturn] : n \in 0..MaxReturns}

BetaInputs == {NoneValue} \cup {ndarray(x) : x \in ReturnArrays}

StatsArgs ==
    [for : {"calculate_beta"}, asset_returns : BetaInputs,
     benchmark_returns : BetaInputs]

\* price frames: up to MaxPrices prices at the dates 1, 2, ..., and one frame
\* longer than the limit of calculate_log_returns
Prices == {1, 2, 4}

PriceFrame(prices) ==
    DataFrame([i \in DOMAIN prices |-> [date |-> i, price |-> prices[i]]])

ShortPriceFrames ==
    {PriceFrame(p) : p \in UNION {[1..n -> Prices] : n \in 0..MaxPrices}}

LongPriceFrame == PriceFrame([i \in 1..(TailLimit + 2) |-> IF i % 2 = 1 THEN 1 ELSE 2])

LogReturnsArgs ==
    [for : {"calculate_log_returns"},
     price_data : {NoneValue, LongPriceFrame} \cup ShortPriceFrames]

\* returns frames: None, a frame without rows, and the returns of the short
\* price frames
VolatilityArgs ==
    [for : {"calculate_volatility"},
     returns_data : {NoneValue, DataFrame(<<>>)}
                    \cup {calculate_log_returns(p) : p \in ShortPriceFrames}]

InitStats ==
    /\ lru = <<>>
    /\ call = NoCall
    /\ ncalls = 0
    /\ metrics = NoMetrics
    /\ cache = {}
    /\ now = 0
    /\ fetch = NoFetch
    /\ fn = "none"
    /\ args \in StatsArgs \cup LogReturnsArgs \cup VolatilityArgs
    /\ ret = NoneValue
    /\ sources = NoSources
    /\ report = NoReport
    /\ history = NoHistory
    /\ engine = NewEngine
    /\ sync = NoSync
    /\ storage = NoStorage
    /\ trend = NoTrend
    /\ users = NoneValue
    /\ sessions = NoSessions

CalculateBeta ==
    /\ fn = "none"
    /\ args.for = "calculate_beta"
    /\ fn' = "calculate_beta"
    /\ ret' = calculate_beta(args.asset_returns, args.benchmark_returns)
    /\ UNCHANGED <<lru, call, ncalls, metrics, cache, now, fetch, args, sources, report, history, engine, sync,
                   storage, trend, users, sessions>>

CalculateLogReturns ==
    /\ fn = "none"
    /\ args.for = "calculate_log_returns"
    /\ fn' = "calculate_log_returns"
    /\ ret' = calculate_log_returns(args.price_data)
    /\ UNCHANGED <<lru, call, ncalls, metrics, cache, now, fetch, args, sources, report, history, engine, sync,
                   storage, trend, users, sessions>>

CalculateVolatility ==
    /\ fn = "none"
    /\ args.for = "calculate_volatility"
    /\ fn' = "calculate_volatility"
    /\ ret' = calculate_volatility(args.returns_data)
    /\ UNCHANGED <<lru, call, ncalls, metrics, cache, now, fetch, args, sources, report, history, engine, sync,
                   storage, trend, users, sessions>>

NextStats == CalculateBeta \/ CalculateLogReturns \/ CalculateVolatility

SpecStats == InitStats /\ [][NextStats]_vars

----------------------------------------------------------------------------
(* The cloud fetcher: calls of CloudDataFetcher.get_historical_data on one  *)
(* fetcher while the clock advances                                         *)

TickStep == 30

MaxTime == 360

CloudSymbols == {"BTC", "XRP"}

CloudDays == {30, 120}

CloudOffers ==
    [binance : {NetworkError, JsonList(BinanceRows)},
     coingecko : {NetworkError, JsonObject({"prices"}, CoinGeckoRows)}]

\* the entries of earlier fetches of (symbol, days)
Fetched(entries, symbol, days) ==
    {e \in entries : e.key.symbol = symbol /\ e.key.days = days}

\* the entry of the latest fetch of (symbol, days)
LastFetched(entries, symbol, days) ==
    CHOOSE e \in Fetched(entries, symbol, days) :
        \A o \in Fetched(entries, symbol, days) : o.timestamp <= e.timestamp

InitCloud == InitResolver

Tick ==
    /\ now + TickStep <= MaxTime
    /\ now' = now + TickStep
    /\ UNCHANGED <<lru, call, ncalls, metrics, cache, fetch, fn, args, ret, sources, report, history, engine, sync,
                   storage, trend, users, sessions>>

CloudGetHistoricalData ==
    /\ ncalls < MaxCalls
    /\ \E symbol \in CloudSymbols, days \in CloudDays,
          offers \in [1..max_retries -> CloudOffers] :
          LET r == cloud_get_historical_data(cache, now, symbol, days, offers)
              before == Fetched(cache, symbol, days)
          IN  /\ cache' = r.cache
              /\ fetch' = [op |-> "get_historical_data", symbol |-> symbol,
                           days |-> days, at |-> now, value |-> r.value,
                           requests |-> r.requests,
                           fetched_before |-> before # {},
                           last |-> IF before # {}
                                    THEN LastFetched(cache, symbol, days)
                                    ELSE [timestamp |-> 0]]
              /\ ncalls' = ncalls + 1
    /\ UNCHANGED <<lru, call, metrics, now, fn, args, ret, sources, report, history, engine, sync,
                   storage, trend, users, sessions>>

NextCloud == Tick \/ CloudGetHistoricalData

SpecCloud == InitCloud /\ [][NextCloud]_vars

----------------------------------------------------------------------------
(* Claims about the resolver, DataEngine.get_historical_data (SpecResolver) *)

\* Binance answered with a non-empty parsable payload
BinanceAnswered(resp) ==
    /\ resp.kind = "http" /\ resp.status = 200
    /\ resp.json = "list" /\ resp.rows # <<>>

\* the source failed: network error, non-2xx status or malformed payload
SourceFailed(request) ==
    \/ request.response.kind = "network_error"
    \/ request.response.status \notin 200..299
    \/ request.response.json = "invalid"
    \/ request.source = "binance" /\ request.response.json = "object"
                                  /\ request.response.keys # {}
    \/ request.source = "coingecko" /\ "prices" \notin request.response.keys

\* the frame has a row for each row of the payload of the request, in order
SeriesOf(value, request) ==
    /\ Len(value.rows) = Len(request.response.rows)
    /\ \A i \in DOMAIN value.rows :
         /\ value.rows[i].date = request.response.rows[i].timestamp
         /\ value.rows[i].price =
              IF request.source = "binance"
              THEN to_numeric(request.response.rows[i].close)
              ELSE request.response.rows[i].price

Resolved == call.op = "get_historical_data" /\ ~call.hit

\* C1: in a call that reaches the sources, a non-empty parsable answer of
\* Binance is the result and CoinGecko is not asked; CoinGecko is asked only
\* second, after Binance raised or answered with an empty payload, or for a
\* symbol without Binance pair; a series returned is the series of exactly one
\* of the sources asked.
C1_BinanceFirstSuccessWins ==
    Resolved =>
        /\ \A i \in DOMAIN call.requests :
             (call.requests[i].source = "binance"
                 /\ BinanceAnswered(call.requests[i].response))
             => /\ Len(call.requests) = 1
                /\ IsDataFrame(call.value)
                /\ SeriesOf(call.value, call.requests[i])
        /\ \A i \in DOMAIN call.requests :
             call.requests[i].source = "coingecko"
             => \/ call.symbol \notin DOMAIN binance_pairs /\ i = 1
                \/ /\ i = 2
                   /\ call.requests[1].source = "binance"
                   /\ ~BinanceAnswered(call.requests[1].response)
        /\ IsDataFrame(call.value)
             => /\ call.requests # <<>>
                /\ SeriesOf(call.value, call.requests[Len(call.requests)])
                /\ \A i \in 1..(Len(call.requests) - 1) :
                     ~BinanceAnswered(call.requests[i].response)

C1_Witness ==
    /\ Resolved
    /\ Len(call.requests) = 1
    /\ call.requests[1].source = "binance"
    /\ BinanceAnswered(call.requests[1].response)
    /\ IsDataFrame(call.value)

C4_FailureNotRemembered ==
    (/\ call.op = "get_historical_data"
     /\ HasCrypto(call.symbol)
     /\ call.prev.type = "call"
     /\ ~call.prev.hit
     /\ IsNone(call.prev.value))
    => /\ call.requests # <<>>
       /\ call.requests[1].source = "binance"
       /\ call.available => IsDataFrame(call.value)

----------------------------------------------------------------------------
(* Claims about DataEngine.generate_metrics_table (SpecMetrics) *)

Generated == metrics.op = "generate_metrics_table"

\* what get_historical_data(symbol, days=90) resolved to in the last run
ResolvedSeries(symbol) == lru[LruIndex(lru, MetricsKey(symbol))].value

Usable(symbol) ==
    /\ IsDataFrame(ResolvedSeries(symbol))
    /\ Len(ResolvedSeries(symbol).rows) >= 2

RowsOf(symbol) ==
    {i \in DOMAIN metrics.value.rows : metrics.value.rows[i].symbol = symbol}

\* C2: generate_metrics_table never raises, and its table has exactly one row
\* for each symbol whose resolved series has at least 2 prices and no row for
\* any other symbol.
C2_RowsExactlyForUsableSymbols ==
    Generated =>
        /\ IsDataFrame(metrics.value)
        /\ \A i \in DOMAIN metrics.value.rows : metrics.value.rows[i].symbol \in Symbols
        /\ \A s \in Symbols :
             Cardinality(RowsOf(s)) = IF Usable(s) THEN 1 ELSE 0

\* five symbols, one of them resolved to an empty series, four rows
C2_Witness ==
    /\ Generated
    /\ IsDataFrame(metrics.value)
    /\ Len(metrics.value.rows) = 4
    /\ IsDataFrame(ResolvedSeries("SOL"))
    /\ ResolvedSeries("SOL").rows = <<>>
    /\ \A s \in Symbols \ {"SOL"} : Usable(s)

BenchmarkReturns == calculate_log_returns(ResolvedSeries(metrics.benchmark))

IsConstant(values) == \A i, j \in DOMAIN values : values[i] = values[j]

\* C10: when the returns of the benchmark have zero variance, calculate_beta
\* yields 0 for an asset of the same length, and the row of that asset
\* reports beta = 0.
C10_ZeroVarianceBetaIsZero ==
    (/\ Generated
     /\ IsDataFrame(metrics.value)
     /\ Usable(metrics.benchmark)
     /\ Len(BenchmarkReturns.rows) >= 2
     /\ IsConstant(log_return_values(BenchmarkReturns).values))
    => \A i \in DOMAIN metrics.value.rows :
         LET row == metrics.value.rows[i]
             asset == log_return_values(calculate_log_returns(ResolvedSeries(row.symbol)))
         IN  (row.symbol # metrics.benchmark
                /\ Len(asset.values) = Len(BenchmarkReturns.rows))
             => /\ calculate_beta(asset, log_return_values(BenchmarkReturns))
                     = [type |-> "int", value |-> 0]
                /\ row.beta = Zero

----------------------------------------------------------------------------
(* Claims about CloudDataFetcher.get_historical_data (SpecCloud) *)

\* C5: after a successful fetch of (symbol, days) at time t, a call with the
\* same (symbol, days) at a time in [t, t + 300) returns the cached series and
\* sends no request, and a call at t + 300 or later fetches again.
C5_FiveMinuteExpiry ==
    (fetch.op = "get_historical_data" /\ fetch.fetched_before)
    => IF fetch.at - fetch.last.timestamp < cache_timeout
       THEN fetch.requests = <<>> /\ fetch.value = fetch.last.data
       ELSE fetch.requests # <<>>

----------------------------------------------------------------------------
(* Claims about the risk classifiers (SpecRisk) *)

\* the ladder of the specification for the default thresholds
DefaultLevel(v) ==
    IF v < 30 THEN "Low Risk"
    ELSE IF v <= 60 THEN "Medium Risk"
    ELSE IF v <= 100 THEN "High Risk"
    ELSE "Very High Risk"

\* C6: with the default thresholds and a Sharpe ratio in [-2, 2], both
\* classifiers give Low iff v < 0.30, Medium iff 0.30 <= v <= 0.60, High iff
\* 0.60 < v <= 1.00 and VeryHigh iff v > 1.00.
C6_DefaultLadder ==
    \A i \in DOMAIN args.metrics_df :
        (args.metrics_df[i].sharpe_ratio >= -20 /\ args.metrics_df[i].sharpe_ratio <= 20)
        => /\ fn = "_classify_risk"
                => ret[i].risk_level
                     = DefaultLevel(args.metrics_df[i].annualized_volatility)
           /\ (fn = "apply_custom_risk_classification" /\ args.vol = <<30, 60, 100>>)
                => ret[i].risk_level
                     = DefaultLevel(args.metrics_df[i].annualized_volatility)

Classified == fn = "apply_custom_risk_classification"

\* C7: risk_level is VeryHigh whenever sharpe_ratio < -2; when sharpe_ratio > 2
\* it is Low if the volatility level is Low or Medium and the volatility level
\* otherwise; for -2 <= sharpe_ratio <= 2 it is the volatility level.
C7_SharpeOverride ==
    Classified =>
        \A i \in DOMAIN ret :
            LET level == volatility_risk(ret[i].annualized_volatility,
                                         args.vol[1], args.vol[2], args.vol[3])
            IN  /\ ret[i].volatility_risk = level
                /\ ret[i].sharpe_ratio < -20 => ret[i].risk_level = "Very High Risk"
                /\ ret[i].sharpe_ratio > 20 =>
                     ret[i].risk_level =
                        IF level \in {"Low Risk", "Medium Risk"}
                        THEN "Low Risk" ELSE level
                /\ (ret[i].sharpe_ratio >= -20 /\ ret[i].sharpe_ratio <= 20)
                     => ret[i].risk_level = level

C7_Witness ==
    /\ Classified
    /\ Len(ret) = 2
    /\ ret[1].sharpe_ratio < -20
    /\ ret[1].volatility_risk = "Low Risk"
    /\ ret[1].risk_level = "Very High Risk"
    /\ ret[2].sharpe_ratio > 20
    /\ ret[2].volatility_risk = "Medium Risk"
    /\ ret[2].risk_level = "Low Risk"

Rank(level) ==
    CASE level = "Low Risk" -> 1
      [] level = "Medium Risk" -> 2
      [] level = "High Risk" -> 3
      [] level = "Very High Risk" -> 4
      [] OTHER -> 0

\* C8: for a fixed Sharpe ratio and an ordered threshold triple, a row of
\* higher or equal volatility never gets a lower risk level.
C8_MonotonicInVolatility ==
    (Classified /\ args.vol[1] <= args.vol[2] /\ args.vol[2] <= args.vol[3])
    => \A i, j \in DOMAIN ret :
         (ret[i].sharpe_ratio = ret[j].sharpe_ratio
            /\ ret[i].annualized_volatility <= ret[j].annualized_volatility)
         => Rank(ret[i].risk_level) <= Rank(ret[j].risk_level)

C8_Witness ==
    /\ Classified
    /\ args.vol[1] < args.vol[2] /\ args.vol[2] < args.vol[3]
    /\ Len(ret) = 2
    /\ ret[1].sharpe_ratio > 20
    /\ ret[2].sharpe_ratio = ret[1].sharpe_ratio
    /\ ret[1].volatility_risk = "Medium Risk"
    /\ ret[2].volatility_risk = "High Risk"
    /\ ret[1].risk_level = "Low Risk"
    /\ ret[2].risk_level = "High Risk"

----------------------------------------------------------------------------
(* Claims about the statistics functions (SpecStats) *)

\* C9: calculate_beta(x, x) yields beta = 1, correlation = 1 and r_squared = 1
\* for every non-constant return series x of length >= 2.
C9_BetaOfSelfIsOne ==
    (/\ fn = "calculate_beta"
     /\ args.asset_returns = args.benchmark_returns
     /\ ~IsNone(args.asset_returns)
     /\ Len(args.asset_returns.values) >= 2
     /\ ~IsConstant(args.asset_returns.values))
    => /\ ret.type = "dict"
       /\ ret.beta = One
       /\ ret.correlation = [nan |-> FALSE, sign |-> 1, square |-> One]
       /\ ret.r_squared = One

----------------------------------------------------------------------------
(* Further claims about DataEngine.generate_metrics_table (SpecMetrics) *)

ReturnsOf(symbol) == calculate_log_returns(ResolvedSeries(symbol))

\* C11: a non-benchmark symbol whose return series differs in length from the
\* benchmark's, or has fewer than 2 entries, gets no row, while the other
\* symbols still get theirs.
C11_MismatchedSymbolHasNoRow ==
    (/\ Generated
     /\ IsDataFrame(metrics.value)
     /\ Usable(metrics.benchmark))
    => \A s \in Symbols \ {metrics.benchmark} :
         Usable(s)
         => IF Len(ReturnsOf(s).rows) # Len(ReturnsOf(metrics.benchmark).rows)
               \/ Len(ReturnsOf(s).rows) < 2
            THEN RowsOf(s) = {}
            ELSE Cardinality(RowsOf(s)) = 1

----------------------------------------------------------------------------
(* CryptoReportGenerator.generate_comprehensive_report *)

Range(seq) == {seq[i] : i \in DOMAIN seq}

\* DataEngine.prepare_visualization_data(symbols, days): the symbols that get
\* an entry in viz_data, in the order of the loop.  The price series is
\* resolved with positional arguments.
RECURSIVE viz_loop(_, _, _, _, _)
viz_loop(i, entries, symbols, days, offers) ==
    LET add(symbol, r, rest) ==
            [viz |-> (IF ~IsNone(r.value) /\ ~IsNone(calculate_log_returns(r.value))
                      THEN << symbol >> ELSE <<>>) \o rest.viz,
             lru |-> rest.lru,
             requests |-> r.requests \o rest.requests]
        pass(symbol, r) ==
            add(symbol, r, viz_loop(i + 1, r.lru, symbols, days, offers))
    IN  IF i > Len(symbols)
        THEN [viz |-> <<>>, lru |-> entries, requests |-> <<>>]
        ELSE pass(symbols[i],
                  get_historical_data(entries, symbols[i], days, FALSE,
                                      offers[symbols[i]]))

prepare_visualization_data(entries, symbols, days, offers) ==
    viz_loop(1, entries, symbols, days, offers)

\* generate_comprehensive_report(symbols, days, benchmark).  offers: what the
\* sources answer while the visualization data is prepared; later: what they
\* answer while the metrics table is generated.  The sections are modelled by
\* whether they raise: metrics_df['symbol'] is a KeyError on a table without
\* rows (it has no columns), idxmax() is a ValueError on an empty column.
generate_comprehensive_report(entries, symbols, days, benchmark, offers, later) ==
    LET requested(row) == row.symbol \in Range(symbols)
        sections(filtered_metrics) ==
            IF filtered_metrics = <<>> THEN Raised("ValueError")
            ELSE [type |-> "dict",
                  assets_analyzed |-> symbols,
                  benchmark |-> benchmark,
                  risk_assessment |->
                      [k \in DOMAIN filtered_metrics |-> filtered_metrics[k].symbol]]
        decide(v, m) ==
            [value |-> IF IsRaised(m.value) THEN m.value
                       ELSE IF v.viz = <<>> THEN NoneValue
                       ELSE IF m.value.rows = <<>> THEN Raised("KeyError")
                       ELSE sections(SelectSeq(m.value.rows, requested)),
             viz_data |-> v.viz,
             metrics_df |-> m.value,
             lru |-> m.lru,
             requests |-> v.requests \o m.requests]
        with_viz(v) == decide(v, generate_metrics_table(v.lru, benchmark, later))
    IN  with_viz(prepare_visualization_data(entries, symbols, days, offers))

----------------------------------------------------------------------------
(* The report generator: runs of generate_comprehensive_report on one engine *)

MaxReports == 1

Down == [binance |-> NetworkError, coingecko |-> NetworkError]

\* What the two sources answer for one symbol: both fail, or Binance serves
\* MaxPrices prices.
ReportOffers ==
    {Down, [binance |-> JsonList(BinanceRowsOf(MaxPrices)), coingecko |-> NetworkError]}

ReportSymbols == {<< "BTC" >>, << "ETH" >>, << "ETH", "SOL" >>}

ReportDays == {30, 90}

\* the symbols whose sources go down between the two phases of a report
Outages == {{}, {"ETH"}, {"BTC"}, Symbols}

InitReport ==
    /\ lru = <<>>
    /\ call = NoCall
    /\ ncalls = 0
    /\ metrics = NoMetrics
    /\ cache = {}
    /\ now = 0
    /\ fetch = NoFetch
    /\ fn = "none"
    /\ args = NoneValue
    /\ ret = NoneValue
    /\ sources \in [Symbols -> ReportOffers]
    /\ report = NoReport
    /\ history = NoHistory
    /\ engine = NewEngine
    /\ sync = NoSync
    /\ storage = NoStorage
    /\ trend = NoTrend
    /\ users = NoneValue
    /\ sessions = NoSessions

GenerateComprehensiveReport ==
    /\ ncalls < MaxReports
    /\ \E symbols \in ReportSymbols, days \in ReportDays, benchmark \in Benchmarks,
          outage \in Outages :
         LET later == [s \in Symbols |-> IF s \in outage THEN Down ELSE sources[s]]
             record(r) ==
                 /\ lru' = r.lru
                 /\ report' = [op |-> "generate_comprehensive_report",
                               symbols |-> symbols,
                               days |-> days,
                               benchmark |-> benchmark,
                               viz_data |-> r.viz_data,
                               metrics_df |-> r.metrics_df,
                               value |-> r.value]
         IN  /\ record(generate_comprehensive_report(lru, symbols, days, benchmark,
                                                     sources, later))
             /\ sources' = later
    /\ ncalls' = ncalls + 1
    /\ UNCHANGED <<call, metrics, cache, now, fetch, fn, args, ret, history, engine, sync,
                   storage, trend, users, sessions>>

NextReport == GenerateComprehensiveReport

SpecReport == InitReport /\ [][NextReport]_vars

----------------------------------------------------------------------------
(* Claims about generate_comprehensive_report (SpecReport) *)

\* C12: generate_comprehensive_report returns None or a report and raises no
\* exception, also when the metrics table is empty while the visualization
\* data is not, and when no requested symbol has a row in the table.
C12_ReportNeverRaises ==
    report.op = "generate_comprehensive_report"
    => \/ IsNone(report.value)
       \/ report.value.type = "dict"

----------------------------------------------------------------------------
(* Further claims about DataEngine.get_historical_data (SpecResolver) *)

\* C13: get_historical_data never returns an empty series: its result is None
\* or a series with at least one row.
C13_NeverEmptySeries ==
    Resolved => \/ IsNone(call.value)
                \/ IsDataFrame(call.value) /\ call.value.rows # <<>>

----------------------------------------------------------------------------
(* CryptoAPI.get_price_history *)

symbol_map ==
    ("bitcoin" :> "BTCUSDT") @@ ("ethereum" :> "ETHUSDT") @@ ("cardano" :> "ADAUSDT")
    @@ ("polkadot" :> "DOTUSDT") @@ ("chainlink" :> "LINKUSDT")
    @@ ("binancecoin" :> "BNBUSDT") @@ ("ripple" :> "XRPUSDT")
    @@ ("solana" :> "SOLUSDT") @@ ("dogecoin" :> "DOGEUSDT")
    @@ ("avalanche-2" :> "AVAXUSDT")

\* symbol_map.get(coin_id)
get_binance_symbol(coin_id) ==
    IF coin_id \in DOMAIN symbol_map
    THEN [type |-> "str", value |-> symbol_map[coin_id]]
    ELSE NoneValue

\* get_binance_klines(symbol, '1d', limit): the request carries the limit as
\* it was given; None for an exception or an empty payload, else df[['price']]
get_binance_klines(symbol, limit, resp) ==
    [requests |-> << [source |-> "binance", param |-> limit, response |-> resp] >>,
     value |->
        IF resp.kind = "network_error" THEN NoneValue
        ELSE IF raise_for_status(resp) THEN NoneValue
        ELSE IF resp.json = "invalid" THEN NoneValue
        ELSE IF ~Truthy(resp) THEN NoneValue
        ELSE IF resp.json # "list" THEN NoneValue
        ELSE IF \E i \in DOMAIN resp.rows : ~IsNumeric(resp.rows[i].close)
             THEN NoneValue
        ELSE DataFrame([i \in DOMAIN resp.rows |->
                           [date  |-> resp.rows[i].timestamp,
                            price |-> to_numeric(resp.rows[i].close)]])]

\* get_coingecko_price_history(coin_id, days): the request carries the days as
\* they were given; None for an exception, else the frame of data['prices']
get_coingecko_price_history(coin_id, days, resp) ==
    [requests |-> << [source |-> "coingecko", param |-> days, response |-> resp] >>,
     value |->
        IF resp.kind = "network_error" THEN NoneValue
        ELSE IF raise_for_status(resp) THEN NoneValue
        ELSE IF resp.json = "invalid" THEN NoneValue
        ELSE IF resp.json # "object" \/ "prices" \notin resp.keys THEN NoneValue
        ELSE DataFrame([i \in DOMAIN resp.rows |->
                           [date  |-> resp.rows[i].timestamp,
                            price |-> resp.rows[i].price]])]

\* get_price_history(coin_id, days): Binance when the coin has a Binance
\* symbol, CoinGecko when it has none or Binance returned None
get_price_history(coin_id, days, offers) ==
    LET fallback(sent) ==
            LET g == get_coingecko_price_history(coin_id, days, offers.coingecko)
            IN  [value |-> g.value, requests |-> sent \o g.requests]
        first(b) ==
            IF ~IsNone(b.value) THEN [value |-> b.value, requests |-> b.requests]
            ELSE fallback(b.requests)
    IN  IF ~IsNone(get_binance_symbol(coin_id))
        THEN first(get_binance_klines(get_binance_symbol(coin_id).value, days,
                                      offers.binance))
        ELSE fallback(<<>>)

CoinIds == {"bitcoin", "monero"}

GetPriceHistory ==
    /\ ncalls < MaxCalls
    /\ \E coin_id \in CoinIds, days \in ResolverDays, offers \in ResolverOffers :
          LET record(r) ==
                 history' = [op |-> "get_price_history", coin_id |-> coin_id,
                             days |-> days, value |-> r.value,
                             requests |-> r.requests]
          IN  record(get_price_history(coin_id, days, offers))
    /\ ncalls' = ncalls + 1
    /\ UNCHANGED <<lru, call, metrics, cache, now, fetch, fn, args, ret, sources,
                   report, engine, sync, storage, trend, users, sessions>>

----------------------------------------------------------------------------
(* The historical fetch paths side by side: DataEngine.get_historical_data, *)
(* CloudDataFetcher.get_historical_data and CryptoAPI.get_price_history     *)
(* called in any order, at one instant                                      *)

InitFetchers == InitResolver

NextFetchers == GetHistoricalData \/ CloudGetHistoricalData \/ GetPriceHistory

SpecFetchers == InitFetchers /\ [][NextFetchers]_vars

\* the number of requests of a call that went to the source
RequestsTo(requests, source) ==
    Cardinality({k \in DOMAIN requests : requests[k].source = source})

\* C14 as stated: one call of either resolver contacts each source at most
\* once, so it sends at most 2 requests.
C14_EachSourceAtMostOnce ==
    /\ call.op = "get_historical_data"
         => /\ RequestsTo(call.requests, "binance") <= 1
            /\ RequestsTo(call.requests, "coingecko") <= 1
    /\ fetch.op = "get_historical_data"
         => /\ RequestsTo(fetch.requests, "binance") <= 1
            /\ RequestsTo(fetch.requests, "coingecko") <= 1

\* C14 amended: one call of DataEngine.get_historical_data contacts each
\* source at most once; one call of CloudDataFetcher.get_historical_data
\* contacts each source at most max_retries times, Binance before CoinGecko
\* in every attempt, and goes on to the next attempt only after both failed.
C14_AttemptsBounded ==
    /\ call.op = "get_historical_data"
         => /\ RequestsTo(call.requests, "binance") <= 1
            /\ RequestsTo(call.requests, "coingecko") <= 1
            /\ Len(call.requests) <= 2
    /\ fetch.op = "get_historical_data"
         => /\ RequestsTo(fetch.requests, "binance") <= max_retries
            /\ RequestsTo(fetch.requests, "coingecko") <= max_retries
            /\ Len(fetch.requests) <= 2 * max_retries
            /\ \A k \in DOMAIN fetch.requests :
                 /\ fetch.requests[k].source = (IF k % 2 = 1 THEN "binance"
                                                 ELSE "coingecko")
                 /\ k < Len(fetch.requests) => SourceFailed(fetch.requests[k])

\* a call of each resolver in which every source failed every time: 2
\* requests of the engine, 6 of the cloud fetcher
C14_Witness ==
    /\ call.op = "get_historical_data"
    /\ Len(call.requests) = 2
    /\ IsNone(call.value)
    /\ fetch.op = "get_historical_data"
    /\ Len(fetch.requests) = 2 * max_retries
    /\ IsNone(fetch.value)

----------------------------------------------------------------------------
(* Further claims about CloudDataFetcher.get_historical_data (SpecCloud) *)

MinutesPerDay == 1440

DayOf(key) == key.minute \div MinutesPerDay

\* C15: the cache holds at most one entry per (symbol, days, calendar day):
\* a later successful fetch on the same day overwrites the entry of the
\* earlier one.
C15_OneEntryPerDay ==
    \A e1, e2 \in cache :
        (/\ e1.key.symbol = e2.key.symbol
         /\ e1.key.days = e2.key.days
         /\ DayOf(e1.key) = DayOf(e2.key))
        => e1 = e2

----------------------------------------------------------------------------
(* Further claims about the statistics functions (SpecStats) *)

LogReturnsTaken == fn = "calculate_log_returns" /\ ~IsNone(args.price_data)

\* C16 as stated: None for fewer than 2 prices, and for n >= 2 prices exactly
\* n - 1 returns, the i-th indexed by the date of the later price of its pair.
C16_ExactlyNMinusOne ==
    LogReturnsTaken
    => LET prices == args.price_data.rows
       IN  IF Len(prices) < 2 THEN IsNone(ret)
           ELSE /\ IsDataFrame(ret)
                /\ Len(ret.rows) = Len(prices) - 1
                /\ \A i \in DOMAIN ret.rows : ret.rows[i].date = prices[i + 1].date

\* C16 amended: None for fewer than 2 prices, and for n >= 2 prices the last
\* min(n - 1, 1000) of the n - 1 returns, each indexed by the date of the
\* later price of its pair.
C16_LastThousandReturns ==
    /\ (fn = "calculate_log_returns" /\ IsNone(args.price_data)) => IsNone(ret)
    /\ LogReturnsTaken
        => LET prices == args.price_data.rows
               kept == Min(Len(prices) - 1, TailLimit)
               first == Len(prices) - kept
           IN  IF Len(prices) < 2 THEN IsNone(ret)
               ELSE /\ IsDataFrame(ret)
                    /\ Len(ret.rows) = kept
                    /\ \A i \in DOMAIN ret.rows :
                         /\ ret.rows[i].date = prices[first + i].date
                         /\ ret.rows[i].log_return
                              = Log2(prices[first + i].price)
                                - Log2(prices[first + i - 1].price)

\* the returns of a frame of 1002 prices: the last 1000 of the 1001
C16_Witness ==
    /\ LogReturnsTaken
    /\ Len(args.price_data.rows) = TailLimit + 2
    /\ IsDataFrame(ret)
    /\ Len(ret.rows) = TailLimit
    /\ ret.rows[1].date = args.price_data.rows[3].date

\* C17: calculate_volatility yields None for fewer than 2 returns, one return
\* included, and a defined daily and annualized volatility for 2 or more.
C17_VolatilityNeedsTwoReturns ==
    fn = "calculate_volatility"
    => IF IsNone(args.returns_data) \/ Len(args.returns_data.rows) < 2
       THEN IsNone(ret)
       ELSE /\ ret.type = "dict"
            /\ ~ret.daily_volatility.nan
            /\ ~ret.annualized_volatility.nan

----------------------------------------------------------------------------
(* Claims about the lookback of the historical fetch paths (SpecFetchers) *)

\* the lookback a source accepts: min(days, 100) for Binance, min(days, 90)
\* for CoinGecko
Clamped(request, days) ==
    request.param = (IF request.source = "binance" THEN Min(days, BinanceLimit)
                     ELSE Min(days, CoinGeckoLimit))

\* C18: every historical fetch path clamps the lookback it sends: every
\* request to Binance carries min(days, 100) and every request to CoinGecko
\* min(days, 90), in DataEngine.get_historical_data, in
\* CloudDataFetcher.get_historical_data and in CryptoAPI.get_price_history.
C18_EveryPathClamps ==
    /\ call.op = "get_historical_data"
         => \A k \in DOMAIN call.requests : Clamped(call.requests[k], call.days)
    /\ fetch.op = "get_historical_data"
         => \A k \in DOMAIN fetch.requests : Clamped(fetch.requests[k], fetch.days)
    /\ history.op = "get_price_history"
         => \A k \in DOMAIN history.requests :
               Clamped(history.requests[k], history.days)

----------------------------------------------------------------------------
(* Claims about the order of a returned series (SpecResolver) *)

\* C19: every series returned by DataEngine.get_historical_data has strictly
\* increasing timestamps, so no timestamp twice, whatever the order and the
\* repeats of the rows of the payload.
C19_StrictlyIncreasingTimestamps ==
    Resolved /\ IsDataFrame(call.value)
    => \A i, j \in DOMAIN call.value.rows :
          i < j => call.value.rows[i].date < call.value.rows[j].date

----------------------------------------------------------------------------
(* DataEngine.sync_data and its three quote sources *)

StaleAfter == 60

\* a quote dictionary {symbol: quote}; the empty one is falsy
Quotes(items) == [type |-> "dict", items |-> items]

TruthyQuotes(v) == v.type = "dict" /\ DOMAIN v.items # {}

\* Faulty variant: the quotes are still ready at the age of 60 seconds.
get_data_status_inclusive(e, t) ==
    IF IsNone(e.last_update) THEN e
    ELSE IF t - e.last_update.t <= StaleAfter THEN [e EXCEPT !.status = "ready"]
    ELSE [e EXCEPT !.status = "stale"]

\* get_data_status() at time t: status follows last_update once it is set
get_data_status(e, t) ==
    IF IsNone(e.last_update) THEN e
    ELSE IF t - e.last_update.t < StaleAfter THEN [e EXCEPT !.status = "ready"]
    ELSE [e EXCEPT !.status = "stale"]

\* info.get(key, 0)
InfoGet(info, key) == IF key \in DOMAIN info THEN info[key] ELSE 0

\* _fetch_coingecko(): one request for all coins; an exception leaves the
\* function.  The body of a 200 answer is rows[1], a dictionary by coin id.
fetch_coingecko(t, resp) ==
    LET listed == {k \in DOMAIN cryptocurrencies :
                      resp.json = "object" /\ cryptocurrencies[k].id \in resp.keys}
        info(k) == resp.rows[1][cryptocurrencies[k].id]
        sent == << [source |-> "coingecko", symbol |-> "", response |-> resp] >>
    IN  IF \/ resp.kind = "network_error"
           \/ raise_for_status(resp)
           \/ resp.json = "invalid"
           \/ \E k \in listed : "usd" \notin DOMAIN info(k)
        THEN [raised |-> TRUE, value |-> NoneValue, requests |-> sent]
        ELSE [raised |-> FALSE,
              value |-> Quotes([sym \in {cryptocurrencies[k].symbol : k \in listed} |->
                          LET k == CHOOSE c \in listed : cryptocurrencies[c].symbol = sym
                          IN  [name |-> cryptocurrencies[k].name,
                               symbol |-> sym,
                               price |-> info(k)["usd"],
                               change_24h |-> InfoGet(info(k), "usd_24h_change"),
                               volume_24h |-> InfoGet(info(k), "usd_24h_vol"),
                               timestamp |-> t]]),
              requests |-> sent]

\* the 24hr ticker of one pair was parsed: lastPrice, priceChangePercent and
\* volume are present and float() accepts them
TickerParsed(resp) ==
    /\ resp.kind # "network_error"
    /\ ~raise_for_status(resp)
    /\ resp.json = "object"
    /\ {"lastPrice", "priceChangePercent", "volume"} \subseteq resp.keys
    /\ IsNumeric(resp.rows[1].lastPrice)
    /\ IsNumeric(resp.rows[1].priceChangePercent)
    /\ IsNumeric(resp.rows[1].volume)

\* _fetch_binance(): one request per coin, each in its own try; None when no
\* coin was parsed
fetch_binance(t, resps) ==
    LET parsed == {k \in DOMAIN cryptocurrencies :
                      /\ cryptocurrencies[k].symbol \in DOMAIN binance_pairs
                      /\ TickerParsed(resps[cryptocurrencies[k].symbol])}
    IN  [raised |-> FALSE,
         value |-> IF parsed = {} THEN NoneValue
                   ELSE Quotes([sym \in {cryptocurrencies[k].symbol : k \in parsed} |->
                          LET k == CHOOSE c \in parsed : cryptocurrencies[c].symbol = sym
                          IN  [name |-> cryptocurrencies[k].name,
                               symbol |-> sym,
                               price |-> to_numeric(resps[sym].rows[1].lastPrice),
                               change_24h |-> to_numeric(resps[sym].rows[1].priceChangePercent),
                               volume_24h |-> to_numeric(resps[sym].rows[1].volume),
                               timestamp |-> t]]),
         requests |-> [k \in DOMAIN cryptocurrencies |->
                          [source |-> "binance", symbol |-> cryptocurrencies[k].symbol,
                           response |-> resps[cryptocurrencies[k].symbol]]]]

\* the price of one coin was read: price_data["USD"] is present
PriceRead(resp) ==
    /\ resp.kind # "network_error"
    /\ ~raise_for_status(resp)
    /\ resp.json = "object"
    /\ "USD" \in resp.keys

\* _fetch_cryptocompare(): one request per coin, each in its own try; None
\* when no coin was read
fetch_cryptocompare(t, resps) ==
    LET read == {k \in DOMAIN cryptocurrencies : PriceRead(resps[cryptocurrencies[k].symbol])}
    IN  [raised |-> FALSE,
         value |-> IF read = {} THEN NoneValue
                   ELSE Quotes([sym \in {cryptocurrencies[k].symbol : k \in read} |->
                          LET k == CHOOSE c \in read : cryptocurrencies[c].symbol = sym
                          IN  [name |-> cryptocurrencies[k].name,
                               symbol |-> sym,
                               price |-> resps[sym].rows[1].USD,
                               change_24h |-> 0,
                               volume_24h |-> 0,
                               timestamp |-> t]]),
         requests |-> [k \in DOMAIN cryptocurrencies |->
                          [source |-> "cryptocompare", symbol |-> cryptocurrencies[k].symbol,
                           response |-> resps[cryptocurrencies[k].symbol]]]]

\* source_func() for one entry of the list sources
source_func(name, t, offers) ==
    CASE name = "_fetch_coingecko" -> fetch_coingecko(t, offers.coingecko)
      [] name = "_fetch_binance" -> fetch_binance(t, offers.binance)
      [] name = "_fetch_cryptocompare" -> fetch_cryptocompare(t, offers.cryptocompare)

\* Faulty variant: the result of the source is merged into the previous cache.
RECURSIVE sync_loop_merging(_, _, _, _, _, _)
sync_loop_merging(order, i, e, t, offers, sent) ==
    LET step(f) ==
            IF ~f.raised /\ TruthyQuotes(f.value)
            THEN [engine |-> [data_cache |-> f.value.items @@ e.data_cache,
                              last_update |-> [type |-> "datetime", t |-> t],
                              status |-> "ready"],
                  value |-> f.value,
                  requests |-> sent \o f.requests]
            ELSE sync_loop_merging(order, i + 1, e, t, offers, sent \o f.requests)
    IN  IF i > Len(order)
        THEN [engine |-> [e EXCEPT !.status = "error"], value |-> NoneValue,
              requests |-> sent]
        ELSE step(source_func(order[i], t, offers))

\* Faulty variant: a sync in which every source failed empties the cache.
RECURSIVE sync_loop_clearing(_, _, _, _, _, _)
sync_loop_clearing(order, i, e, t, offers, sent) ==
    LET step(f) ==
            IF ~f.raised /\ TruthyQuotes(f.value)
            THEN [engine |-> [data_cache |-> f.value.items,
                              last_update |-> [type |-> "datetime", t |-> t],
                              status |-> "ready"],
                  value |-> f.value,
                  requests |-> sent \o f.requests]
            ELSE sync_loop_clearing(order, i + 1, e, t, offers, sent \o f.requests)
    IN  IF i > Len(order)
        THEN [engine |-> [e EXCEPT !.status = "error", !.data_cache = <<>>],
              value |-> NoneValue,
              requests |-> sent]
        ELSE step(source_func(order[i], t, offers))

\* for source_func in sources: the first source that neither raises nor
\* gives a falsy result is stored and returned; status "error" after the last
RECURSIVE sync_loop(_, _, _, _, _, _)
sync_loop(order, i, e, t, offers, sent) ==
    LET step(f) ==
            IF ~f.raised /\ TruthyQuotes(f.value)
            THEN [engine |-> [data_cache |-> f.value.items,
                              last_update |-> [type |-> "datetime", t |-> t],
                              status |-> "ready"],
                  value |-> f.value,
                  requests |-> sent \o f.requests]
            ELSE sync_loop(order, i + 1, e, t, offers, sent \o f.requests)
    IN  IF i > Len(order)
        THEN [engine |-> [e EXCEPT !.status = "error"], value |-> NoneValue,
              requests |-> sent]
        ELSE step(source_func(order[i], t, offers))

\* Faulty variant: the list of sources starts with Binance.
sync_data_binance_first(e, t, force, offers) ==
    IF ~force /\ get_data_status(e, t).status = "ready"
    THEN [engine |-> get_data_status(e, t),
          value |-> Quotes(e.data_cache), requests |-> <<>>]
    ELSE sync_loop(<<"_fetch_binance", "_fetch_coingecko", "_fetch_cryptocompare">>,
                   1, [IF force THEN e ELSE get_data_status(e, t)
                       EXCEPT !.status = "syncing"], t, offers, <<>>)

\* sync_data(force) at time t; get_data_status() runs only when force is false
sync_data(e, t, force, offers) ==
    IF ~force /\ get_data_status(e, t).status = "ready"
    THEN [engine |-> get_data_status(e, t),
          value |-> Quotes(e.data_cache), requests |-> <<>>]
    ELSE sync_loop(<<"_fetch_coingecko", "_fetch_binance", "_fetch_cryptocompare">>,
                   1, [IF force THEN e ELSE get_data_status(e, t)
                       EXCEPT !.status = "syncing"], t, offers, <<>>)

----------------------------------------------------------------------------
(* The engine: DataEngine.sync_data and DataEngine.get_historical_data on *)
(* one engine, while the clock advances                                    *)

\* the body of /simple/price: a dictionary by coin id
SimplePrice(infos) == JsonObject(DOMAIN infos, <<infos>>)

AllQuoted ==
    [id \in {cryptocurrencies[k].id : k \in DOMAIN cryptocurrencies} |->
        [usd |-> 4, usd_24h_change |-> 1, usd_24h_vol |-> 8]]

BitcoinWithoutUsd == [id \in {"bitcoin"} |-> [eur |-> 4]]

Ticker ==
    JsonObject({"lastPrice", "priceChangePercent", "volume"},
               << [lastPrice |-> <<"4">>, priceChangePercent |-> <<"1">>,
                   volume |-> <<"8">>] >>)

TickerError == JsonObject({"code", "msg"}, <<>>)

UsdPrice == JsonObject({"USD"}, << [USD |-> 4] >>)

PriceError == JsonObject({"Response", "Message"}, <<>>)

SyncCoinGecko ==
    {NetworkError, HttpError(429), JsonObject({}, <<>>), SimplePrice(AllQuoted),
     SimplePrice(BitcoinWithoutUsd)}

SyncBinance ==
    {[sym \in Symbols |-> NetworkError], [sym \in Symbols |-> TickerError],
     [sym \in Symbols |-> Ticker],
     [sym \in Symbols |-> IF sym = "BTC" THEN Ticker ELSE NetworkError]}

SyncCryptoCompare ==
    {[sym \in Symbols |-> NetworkError], [sym \in Symbols |-> UsdPrice],
     [sym \in Symbols |-> IF sym = "ETH" THEN UsdPrice ELSE PriceError]}

SyncOffers ==
    [coingecko : SyncCoinGecko, binance : SyncBinance, cryptocompare : SyncCryptoCompare]

InitEngine == InitResolver

SyncData ==
    /\ ncalls < MaxCalls
    /\ \E force \in BOOLEAN, offers \in SyncOffers :
          LET record(r) ==
                 /\ engine' = r.engine
                 /\ sync' = [op |-> "sync_data", force |-> force, at |-> now,
                             value |-> r.value, requests |-> r.requests,
                             before |-> engine, after |-> r.engine]
          IN  record(sync_data(engine, now, force, offers))
    /\ ncalls' = ncalls + 1
    /\ UNCHANGED <<lru, call, metrics, cache, now, fetch, fn, args, ret, sources,
                   report, history, storage, trend, users, sessions>>

\* the clock passes the age at which the quotes are stale
Elapse ==
    /\ now + StaleAfter <= MaxElapsed
    /\ now' = now + StaleAfter
    /\ UNCHANGED <<lru, call, ncalls, metrics, cache, fetch, fn, args, ret, sources,
                   report, history, engine, sync,
                   storage, trend, users, sessions>>

\* a call of get_data_status(); what it returns is the status it leaves
GetDataStatus ==
    /\ engine' = get_data_status(engine, now)
    /\ UNCHANGED <<lru, call, ncalls, metrics, cache, now, fetch, fn, args, ret,
                   sources, report, history, sync,
                   storage, trend, users, sessions>>

NextEngine == SyncData \/ GetHistoricalData \/ Elapse

SpecEngine == InitEngine /\ [][NextEngine]_vars

\* the quote side of the engine alone: sync_data and get_data_status
InitSync == InitResolver

NextSync == SyncData \/ GetDataStatus \/ Elapse

SpecSync == InitSync /\ [][NextSync]_vars

----------------------------------------------------------------------------
(* Claims about the order of the sources of DataEngine (SpecEngine) *)

SourcesOf(requests) == {requests[k].source : k \in DOMAIN requests}

\* the position of a source in the list of sync_data
SyncRank(source) ==
    CASE source = "coingecko" -> 1 [] source = "binance" -> 2
      [] source = "cryptocompare" -> 3

\* the request to a quote source did not give a usable answer
QuoteFailed(request) ==
    CASE request.source = "coingecko" ->
            \/ fetch_coingecko(0, request.response).raised
            \/ ~TruthyQuotes(fetch_coingecko(0, request.response).value)
      [] request.source = "binance" -> ~TickerParsed(request.response)
      [] request.source = "cryptocompare" -> ~PriceRead(request.response)

\* C20 as stated: the sources are tried in the order Binance, CoinGecko,
\* CryptoCompare: sync_data contacts CoinGecko only after Binance, and
\* CryptoCompare only after both; a get_historical_data in which Binance and
\* CoinGecko failed goes on to CryptoCompare.
C20_BinanceThenCoinGeckoThenCryptoCompare ==
    /\ sync.op = "sync_data"
         => \A k \in DOMAIN sync.requests :
               /\ sync.requests[k].source = "coingecko"
                    => \E j \in 1..(k - 1) : sync.requests[j].source = "binance"
               /\ sync.requests[k].source = "cryptocompare"
                    => {"binance", "coingecko"}
                          \subseteq SourcesOf(SubSeq(sync.requests, 1, k - 1))
    /\ Resolved /\ Len(call.requests) = 2 /\ IsNone(call.value)
         => "cryptocompare" \in SourcesOf(call.requests)

\* C20 amended: sync_data tries CoinGecko, then Binance, then CryptoCompare:
\* whatever it contacts, it contacts CoinGecko first and once; Binance only
\* after CoinGecko raised or gave no quote; CryptoCompare only after no
\* ticker of Binance was parsed either.  get_historical_data asks Binance
\* and then CoinGecko, and never CryptoCompare.
C20_CoinGeckoThenBinanceThenCryptoCompare ==
    /\ sync.op = "sync_data"
         => /\ sync.requests # <<>> => sync.requests[1].source = "coingecko"
            /\ \A j, k \in DOMAIN sync.requests :
                  j < k => /\ SyncRank(sync.requests[j].source)
                                <= SyncRank(sync.requests[k].source)
                           /\ sync.requests[k].source # "coingecko"
                           /\ SyncRank(sync.requests[j].source)
                                < SyncRank(sync.requests[k].source)
                                => QuoteFailed(sync.requests[j])
    /\ call.op = "get_historical_data"
         => /\ SourcesOf(call.requests) \subseteq {"binance", "coingecko"}
            /\ \A j, k \in DOMAIN call.requests :
                  j < k => /\ call.requests[j].source = "binance"
                           /\ call.requests[k].source = "coingecko"

\* a sync that went through all three sources and got its quotes from
\* CryptoCompare, and a get_historical_data in which both sources failed
C20_Witness ==
    /\ sync.op = "sync_data"
    /\ SourcesOf(sync.requests) = {"coingecko", "binance", "cryptocompare"}
    /\ TruthyQuotes(sync.value)
    /\ Resolved
    /\ Len(call.requests) = 2
    /\ IsNone(call.value)

----------------------------------------------------------------------------
(* Claims about the beta columns of generate_metrics_table (SpecMetrics) *)

\* the benchmark was resolved to a series that has returns
BenchmarkReturnsExist ==
    /\ IsDataFrame(ResolvedSeries(metrics.benchmark))
    /\ ~IsNone(ReturnsOf(metrics.benchmark))

DefaultBeta(row) ==
    /\ row.beta = One
    /\ row.correlation_vs_btc = [nan |-> FALSE, sign |-> 0, square |-> Zero]
    /\ row.r_squared = Zero

\* C21: generate_metrics_table invokes calculate_beta only for a symbol other
\* than the benchmark and only when the returns of the benchmark exist; the
\* row of the benchmark, and every row of a table whose benchmark was not
\* resolved or has fewer than 2 prices, carries beta = 1.0,
\* correlation_vs_btc = 0 and r_squared = 0 without a call of calculate_beta.
C21_BetaOnlyAgainstResolvedBenchmark ==
    (Generated /\ IsDataFrame(metrics.value))
    => /\ \A k \in DOMAIN metrics.beta_calls :
             /\ metrics.beta_calls[k] # metrics.benchmark
             /\ BenchmarkReturnsExist
       /\ \A i \in DOMAIN metrics.value.rows :
             (\/ metrics.value.rows[i].symbol = metrics.benchmark
              \/ ~BenchmarkReturnsExist)
             => /\ DefaultBeta(metrics.value.rows[i])
                /\ metrics.value.rows[i].symbol \notin Range(metrics.beta_calls)

\* a table with the row of the benchmark, carrying the defaults, next to a
\* row whose beta was computed and differs from the defaults
C21_Witness ==
    /\ Generated
    /\ IsDataFrame(metrics.value)
    /\ RowsOf(metrics.benchmark) # {}
    /\ \E i \in DOMAIN metrics.value.rows :
          /\ metrics.value.rows[i].symbol \in Range(metrics.beta_calls)
          /\ ~DefaultBeta(metrics.value.rows[i])

----------------------------------------------------------------------------
(* Claims about DataEngine.sync_data (SpecSync) *)

\* the last call of sync_data contacted its sources
Contacted == sync.op = "sync_data" /\ sync.requests # <<>>

\* one of the requests to the source gave a usable answer
SourceGave(source) ==
    \E k \in DOMAIN sync.requests :
        sync.requests[k].source = source /\ ~QuoteFailed(sync.requests[k])

\* what the source answered to the requests of the last sync, by symbol
AnswersOf(source) ==
    [sym \in Symbols |->
        LET k == CHOOSE j \in DOMAIN sync.requests :
                    /\ sync.requests[j].source = source
                    /\ sync.requests[j].symbol = sym
        IN  sync.requests[k].response]

\* the result of the source in the last sync, from what it answered
ResultOf(source) ==
    CASE source = "coingecko" ->
            LET k == CHOOSE j \in DOMAIN sync.requests :
                        sync.requests[j].source = "coingecko"
            IN  fetch_coingecko(sync.at, sync.requests[k].response).value
      [] source = "binance" -> fetch_binance(sync.at, AnswersOf("binance")).value
      [] source = "cryptocompare" ->
            fetch_cryptocompare(sync.at, AnswersOf("cryptocompare")).value

\* C22: a sync_data that contacts sources walks the list in order and stops at
\* the first source that neither raises nor gives an empty result: data_cache
\* becomes exactly the result of that source, every entry of it fetched in
\* this call, last_update is set to now, status is ready, the result is
\* returned and no later source is contacted; a source that failed is
\* followed by the next one of the list.
C22_FirstUsableSourceWins ==
    Contacted
    => \A source \in SourcesOf(sync.requests) :
          IF SourceGave(source)
          THEN /\ \A other \in SourcesOf(sync.requests) :
                     SyncRank(other) <= SyncRank(source)
               /\ sync.after.data_cache = ResultOf(source).items
               /\ \A sym \in DOMAIN sync.after.data_cache :
                     sync.after.data_cache[sym].timestamp = sync.at
               /\ sync.after.last_update = [type |-> "datetime", t |-> sync.at]
               /\ sync.after.status = "ready"
               /\ sync.value = Quotes(sync.after.data_cache)
          ELSE SyncRank(source) < 3
               => \E other \in SourcesOf(sync.requests) :
                     SyncRank(other) = SyncRank(source) + 1

\* a sync on an engine whose cache held all five symbols: CoinGecko failed,
\* Binance gave BTC only, CryptoCompare was not contacted and the cache now
\* holds BTC only
C22_Witness ==
    /\ Contacted
    /\ DOMAIN sync.before.data_cache = Symbols
    /\ SourcesOf(sync.requests) = {"coingecko", "binance"}
    /\ DOMAIN sync.after.data_cache = {"BTC"}

----------------------------------------------------------------------------
(* CloudDataFetcher.get_current_price *)

CurrentPriceTimeout == 60

\* f"current_{symbol}_{now:%Y%m%d_%H%M}"
current_cache_key(symbol, t) ==
    [prefix |-> "current", symbol |-> symbol, minute |-> t \div SecondsPerMinute]

\* {symbol: {'usd': price}}
PriceOf(symbol, price) ==
    [type |-> "dict", items |-> [sym \in {symbol} |-> [usd |-> price]]]

\* float(data['price']) of the Binance ticker succeeds
BinancePriceParsed(resp) ==
    /\ resp.kind # "network_error"
    /\ ~raise_for_status(resp)
    /\ resp.json = "object"
    /\ "price" \in resp.keys
    /\ IsNumeric(resp.rows[1].price)

\* float(data[coin_id]['usd']) of the CoinGecko answer succeeds
CoinGeckoPriceParsed(resp, coin_id) ==
    /\ resp.kind # "network_error"
    /\ ~raise_for_status(resp)
    /\ resp.json = "object"
    /\ coin_id \in resp.keys
    /\ "usd" \in DOMAIN resp.rows[1][coin_id]

\* get_current_price(symbol) at time t.  One try block holds both branches:
\* an exception of the Binance branch ends the call with None, and the
\* CoinGecko branch is reached only by a symbol without a Binance pair.
cloud_get_current_price(entries, t, symbol, offers) ==
    LET cache_key == current_cache_key(symbol, t)
        stored(result, sent) ==
            [value |-> result, requests |-> sent,
             cache |-> {e \in entries : e.key # cache_key}
                       \cup {[key |-> cache_key, data |-> result, timestamp |-> t]}]
        failed(sent) == [value |-> NoneValue, requests |-> sent, cache |-> entries]
        to_binance == << [source |-> "binance", symbol |-> symbol,
                          response |-> offers.binance] >>
        to_coingecko == << [source |-> "coingecko", symbol |-> symbol,
                            response |-> offers.coingecko] >>
    IN  IF \E e \in entries : e.key = cache_key /\ t - e.timestamp < CurrentPriceTimeout
        THEN [value |-> (CHOOSE e \in entries : e.key = cache_key).data,
              requests |-> <<>>, cache |-> entries]
        ELSE IF symbol \in DOMAIN binance_pairs
        THEN IF BinancePriceParsed(offers.binance)
             THEN stored(PriceOf(symbol, to_numeric(offers.binance.rows[1].price)),
                         to_binance)
             ELSE failed(to_binance)
        ELSE IF symbol \in DOMAIN coin_ids
        THEN IF CoinGeckoPriceParsed(offers.coingecko, coin_ids[symbol])
             THEN stored(PriceOf(symbol, offers.coingecko.rows[1][coin_ids[symbol]].usd),
                         to_coingecko)
             ELSE failed(to_coingecko)
        ELSE failed(<<>>)

----------------------------------------------------------------------------
(* The cloud quotes: calls of CloudDataFetcher.get_current_price while the *)
(* clock advances                                                          *)

BinancePrice == JsonObject({"price"}, << [price |-> <<"4">>] >>)

CoinGeckoPrice(symbol) ==
    JsonObject({coin_ids[symbol]}, << [id \in {coin_ids[symbol]} |-> [usd |-> 8]] >>)

PriceSymbols == {"BTC", "ETH", "XRP"}

PriceOffers ==
    [binance : {NetworkError, HttpError(429), JsonObject({"code", "msg"}, <<>>),
                BinancePrice},
     coingecko : {NetworkError, CoinGeckoPrice("BTC"), CoinGeckoPrice("ETH")}]

InitPrice == InitResolver

CloudGetCurrentPrice ==
    /\ ncalls < MaxCalls
    /\ \E symbol \in PriceSymbols, offers \in PriceOffers :
          LET record(r) ==
                 /\ cache' = r.cache
                 /\ fetch' = [op |-> "get_current_price", symbol |-> symbol,
                              at |-> now, offers |-> offers, value |-> r.value,
                              requests |-> r.requests]
          IN  record(cloud_get_current_price(cache, now, symbol, offers))
    /\ ncalls' = ncalls + 1
    /\ UNCHANGED <<lru, call, metrics, now, fn, args, ret, sources, report,
                   history, engine, sync, storage, trend, users, sessions>>

NextPrice == CloudGetCurrentPrice \/ Tick

SpecPrice == InitPrice /\ [][NextPrice]_vars

\* C23: get_current_price falls back to CoinGecko: for a symbol with a
\* Binance pair and a CoinGecko id, a call that reaches the sources, whose
\* Binance request fails while CoinGecko would answer, returns the price of
\* CoinGecko for the symbol and not None.
C23_CurrentPriceFallsBack ==
    (/\ fetch.op = "get_current_price"
     /\ fetch.requests # <<>>
     /\ fetch.symbol \in DOMAIN binance_pairs
     /\ fetch.symbol \in DOMAIN coin_ids
     /\ ~BinancePriceParsed(fetch.offers.binance)
     /\ CoinGeckoPriceParsed(fetch.offers.coingecko, coin_ids[fetch.symbol]))
    => fetch.value
         = PriceOf(fetch.symbol,
                   fetch.offers.coingecko.rows[1][coin_ids[fetch.symbol]].usd)

----------------------------------------------------------------------------
(* Further claims about DataEngine.sync_data and get_data_status (SpecSync) *)

\* the last sync was called less than 60 seconds after a successful one
SyncedRecently ==
    /\ ~IsNone(sync.before.last_update)
    /\ sync.at - sync.before.last_update.t < StaleAfter

\* C24: sync_data(force=False) called less than 60 seconds after the last
\* successful sync contacts no source, leaves data_cache and last_update as
\* they were and returns data_cache; a call with force=True, or 60 seconds or
\* more after the last successful sync, or before any, contacts the sources.
C24_FreshCacheIsServed ==
    sync.op = "sync_data"
    => IF ~sync.force /\ SyncedRecently
       THEN /\ sync.requests = <<>>
            /\ sync.after.data_cache = sync.before.data_cache
            /\ sync.after.last_update = sync.before.last_update
            /\ sync.value = Quotes(sync.before.data_cache)
       ELSE sync.requests # <<>>

\* a sync without force right after a successful one, served from the cache
C24_Witness ==
    /\ sync.op = "sync_data"
    /\ ~sync.force
    /\ SyncedRecently
    /\ DOMAIN sync.before.data_cache # {}
    /\ sync.requests = <<>>

StatusValues == {"idle", "syncing", "error", "ready"}

\* C25: in every state reachable by calls of sync_data and get_data_status,
\* the status of the engine, which is what get_data_status returns, is one
\* of idle, syncing, error, ready.
C25_StatusIsOneOfFour == engine.status \in StatusValues

\* C26: after a sync_data in which every source failed, get_data_status
\* returns error until a later sync_data succeeds, also on an engine whose
\* last_update is set by an earlier successful sync.
C26_ErrorIsKept ==
    (sync.op = "sync_data" /\ IsNone(sync.value))
    => get_data_status(engine, now).status = "error"

\* C27: a sync_data in which every source raises or gives an empty result
\* leaves data_cache and last_update as they were before the call, sets the
\* status to error and returns None.
C27_FailedSyncKeepsCache ==
    (Contacted /\ \A source \in SourcesOf(sync.requests) : ~SourceGave(source))
    => /\ sync.after.data_cache = sync.before.data_cache
       /\ sync.after.last_update = sync.before.last_update
       /\ sync.after.status = "error"
       /\ IsNone(sync.value)

\* a sync in which all three sources failed, on an engine that holds quotes
C27_Witness ==
    /\ Contacted
    /\ SourcesOf(sync.requests) = {"coingecko", "binance", "cryptocompare"}
    /\ \A source \in SourcesOf(sync.requests) : ~SourceGave(source)
    /\ DOMAIN sync.before.data_cache # {}
    /\ ~IsNone(sync.before.last_update)

\* C28: after every successful sync_data, data_cache has an entry for each of
\* the five configured symbols, whichever source answered and whichever
\* requests for single symbols failed.
C28_CacheHoldsAllSymbols ==
    (Contacted /\ sync.after.status = "ready")
    => DOMAIN sync.after.data_cache = Symbols

----------------------------------------------------------------------------
(* DataFetcher.fetch_historical_data and the CSV files of DataStorage *)

RecentWithin == 3600

\* df.to_csv(filepath): the header and one line per row
to_csv(df) == [type |-> "csv", columns |-> <<"date", "price">>, lines |-> df.rows]

\* pd.read_csv(filepath, index_col=0, parse_dates=True)
read_csv(file) == DataFrame(file.lines)

\* DataStorage.load_from_csv: None when the file does not exist
load_from_csv(files, symbol) ==
    IF IsNone(files[symbol]) THEN NoneValue ELSE read_csv(files[symbol])

\* the cached frame is used as it is: it has rows and its last date is less
\* than an hour old
RecentCache(cached_data, t) ==
    /\ ~IsNone(cached_data)
    /\ Len(cached_data.rows) > 0
    /\ t - cached_data.rows[Len(cached_data.rows)].date < RecentWithin

\* One pass of the loop of fetch_historical_data for a symbol: what it adds to
\* historical_data, the files after it and the requests it sent.  unwritable:
\* the symbols whose save_to_csv raises; the except branch then loads the
\* stored file and lets it take the place of the download.
fetch_one(files, t, crypto, days, resp, unwritable) ==
    LET cached_data == load_from_csv(files, crypto.symbol)
        fetched(g) ==
            IF IsNone(g.value)
            THEN [added |-> NoneValue, files |-> files, requests |-> g.requests]
            ELSE IF crypto.symbol \in unwritable
            THEN [added |-> IF ~IsNone(cached_data) THEN cached_data ELSE g.value,
                  files |-> files, requests |-> g.requests]
            ELSE [added |-> g.value,
                  files |-> [files EXCEPT ![crypto.symbol] = to_csv(g.value)],
                  requests |-> g.requests]
    IN  IF RecentCache(cached_data, t)
        THEN [added |-> cached_data, files |-> files, requests |-> <<>>]
        ELSE fetched(get_coingecko_price_history(crypto.id, days, resp))

\* for crypto in self.cryptocurrencies, from the i-th on
RECURSIVE fetch_historical_loop(_, _, _, _, _, _)
fetch_historical_loop(i, files, t, days, offers, unwritable) ==
    LET join(crypto, one, rest) ==
            [items |-> IF IsNone(one.added) THEN rest.items
                       ELSE (crypto.symbol :> one.added) @@ rest.items,
             files |-> rest.files,
             requests |-> one.requests \o rest.requests]
        pass(crypto, one) ==
            join(crypto, one,
                 fetch_historical_loop(i + 1, one.files, t, days, offers, unwritable))
    IN  IF i > Len(cryptocurrencies)
        THEN [items |-> <<>>, files |-> files, requests |-> <<>>]
        ELSE pass(cryptocurrencies[i],
                  fetch_one(files, t, cryptocurrencies[i], days,
                            offers[cryptocurrencies[i].symbol], unwritable))

\* fetch_historical_data(days) at time t
fetch_historical_data(files, t, days, offers, unwritable) ==
    fetch_historical_loop(1, files, t, days, offers, unwritable)

----------------------------------------------------------------------------
(* The trend data: calls of DataFetcher.fetch_historical_data while the *)
(* clock advances by hours                                              *)

MaxTrendTime == 3600

TrendDays == {7}

\* the market chart of CoinGecko at time t: the last point is the current one
ChartAt(t) ==
    JsonObject({"prices"}, << [timestamp |-> 0, price |-> 4],
                              [timestamp |-> t, price |-> 8] >>)

TrendOffers(t) ==
    {[sym \in Symbols |-> NetworkError],
     [sym \in Symbols |-> ChartAt(t)],
     [sym \in Symbols |-> IF sym = "BTC" THEN NetworkError ELSE ChartAt(t)],
     [sym \in Symbols |-> IF sym = "ETH" THEN JsonObject({"prices"}, <<>>)
                          ELSE HttpError(429)]}

InitTrend ==
    /\ lru = <<>>
    /\ call = NoCall
    /\ ncalls = 0
    /\ metrics = NoMetrics
    /\ cache = {}
    /\ now = 0
    /\ fetch = NoFetch
    /\ fn = "none"
    /\ args = NoneValue
    /\ ret = NoneValue
    /\ sources = NoSources
    /\ report = NoReport
    /\ history = NoHistory
    /\ engine = NewEngine
    /\ sync = NoSync
    /\ storage = [sym \in Symbols |-> NoneValue]
    /\ trend = NoTrend
    /\ users = NoneValue
    /\ sessions = NoSessions

FetchHistoricalData ==
    /\ ncalls < MaxCalls
    /\ \E days \in TrendDays, offers \in TrendOffers(now),
          unwritable \in {{}, {"ETH"}} :
          LET record(r) ==
                 /\ storage' = r.files
                 /\ trend' = [op |-> "fetch_historical_data", at |-> now,
                              days |-> days, offers |-> offers,
                              before |-> storage, value |-> r.items,
                              requests |-> r.requests]
          IN  record(fetch_historical_data(storage, now, days, offers, unwritable))
    /\ ncalls' = ncalls + 1
    /\ UNCHANGED <<lru, call, metrics, cache, now, fetch, fn, args, ret, sources,
                   report, history, engine, sync, users, sessions>>

\* an hour passes
PassHour ==
    /\ now + RecentWithin <= MaxTrendTime
    /\ now' = now + RecentWithin
    /\ UNCHANGED <<lru, call, ncalls, metrics, cache, fetch, fn, args, ret, sources,
                   report, history, engine, sync, storage, trend, users, sessions>>

NextTrend == FetchHistoricalData \/ PassHour

SpecTrend == InitTrend /\ [][NextTrend]_vars

\* the download of the symbol in the last call would fail
DownloadFails(symbol) ==
    IsNone(get_coingecko_price_history(coin_ids[symbol], trend.days,
                                       trend.offers[symbol]).value)

\* C29: fetch_historical_data falls back to the stored copy: a symbol whose
\* download fails while a CSV of it exists, of any age, is in the result with
\* the stored series; a symbol is absent from the result only when its
\* download failed and no CSV of it exists.
C29_StoredCopyIsTheFallback ==
    trend.op = "fetch_historical_data"
    => \A sym \in Symbols :
          /\ (DownloadFails(sym) /\ ~IsNone(trend.before[sym]))
                => /\ sym \in DOMAIN trend.value
                   /\ trend.value[sym] = read_csv(trend.before[sym])
          /\ sym \notin DOMAIN trend.value
                => DownloadFails(sym) /\ IsNone(trend.before[sym])

----------------------------------------------------------------------------
(* auth.py: the file users.json and the registration branch of login_page *)

\* hash_password: the SHA-256 digest of the password, taken as injective
hash_password(password) == <<"sha256", password>>

DefaultUsers ==
    ("admin" :> [password |-> hash_password("admin123"), email |-> "admin@example.com",
                 created_at |-> "2024-01-01T00:00:00", role |-> "admin"])
    @@ ("user" :> [password |-> hash_password("user123"), email |-> "user@example.com",
                   created_at |-> "2024-01-01T00:00:00", role |-> "user"])

\* json.dump(users, f) on the file opened for writing: the file holds the
\* dictionary that was passed, and nothing of what it held before
json_dump(dict) == [type |-> "json", items |-> dict]

\* load_users(): the dictionary of the file, the default users without a file
load_users(file) == IF IsNone(file) THEN DefaultUsers ELSE file.items

\* authenticate(username, password)
authenticate(file, username, password) ==
    /\ username \in DOMAIN load_users(file)
    /\ load_users(file)[username].password = hash_password(password)

\* the lengths and the characters of the texts typed into the form
StrLen ==
    ("" :> 0) @@ ("al" :> 2) @@ ("alice" :> 5) @@ ("bob" :> 3) @@ ("admin" :> 5)
    @@ ("abc" :> 3) @@ ("secret1" :> 7) @@ ("hunter22" :> 8)

ValidEmail(email) == email \in {"alice@example.com", "bob@example.com"}

MinUsernameLen == 3

MinPasswordLen == 6

\* the message of the validation chain, "" when the form passes it
validation_error(form) ==
    IF form.username = "" \/ form.password = ""
    THEN "Username and password are required!"
    ELSE IF StrLen[form.username] < MinUsernameLen
    THEN "Username must be at least 3 characters long!"
    ELSE IF StrLen[form.password] < MinPasswordLen
    THEN "Password must be at least 6 characters long!"
    ELSE IF form.password # form.confirm_password THEN "Passwords do not match!"
    ELSE IF ~ValidEmail(form.email) THEN "Please enter a valid email address!"
    ELSE ""

\* users[username] = {...}
new_user(form, t) ==
    [password |-> hash_password(form.password), email |-> form.email,
     created_at |-> t, role |-> "user"]

----------------------------------------------------------------------------
(* The dashboard sessions: registrations of two sessions whose steps *)
(* interleave on the one file users.json                             *)

Sessions == {1, 2}

Form(username, password, confirm_password, email) ==
    [username |-> username, password |-> password,
     confirm_password |-> confirm_password, email |-> email]

Forms ==
    {Form("alice", "secret1", "secret1", "alice@example.com"),
     Form("alice", "hunter22", "hunter22", "alice@example.com"),
     Form("bob", "secret1", "secret1", "bob@example.com"),
     Form("admin", "secret1", "secret1", "alice@example.com"),
     Form("", "secret1", "secret1", "alice@example.com"),
     Form("al", "secret1", "secret1", "alice@example.com"),
     Form("bob", "abc", "abc", "bob@example.com"),
     Form("bob", "secret1", "hunter22", "bob@example.com"),
     Form("bob", "secret1", "secret1", "bob")}

NoForm == Form("", "", "", "")

IdleSession ==
    [pc |-> "idle", form |-> NoForm, users |-> <<>>, message |-> "",
     succeeded |-> {}]

InitAuth ==
    /\ lru = <<>>
    /\ call = NoCall
    /\ ncalls = 0
    /\ metrics = NoMetrics
    /\ cache = {}
    /\ now = 0
    /\ fetch = NoFetch
    /\ fn = "none"
    /\ args = NoneValue
    /\ ret = NoneValue
    /\ sources = NoSources
    /\ report = NoReport
    /\ history = NoHistory
    /\ engine = NewEngine
    /\ sync = NoSync
    /\ storage = NoStorage
    /\ trend = NoTrend
    /\ users = NoneValue
    /\ sessions = [s \in Sessions |-> IdleSession]

AuthFrame ==
    UNCHANGED <<lru, call, metrics, cache, now, fetch, fn, args, ret, sources,
                report, history, engine, sync, storage, trend>>

\* the button "Create Account" and the validation chain
Submit(s) ==
    /\ sessions[s].pc = "idle"
    /\ ncalls < MaxCalls
    /\ \E form \in Forms :
          sessions' = [sessions EXCEPT
                          ![s].form = form,
                          ![s].message = validation_error(form),
                          ![s].pc = IF validation_error(form) = ""
                                    THEN "load_users" ELSE "idle"]
    /\ ncalls' = ncalls + 1
    /\ UNCHANGED users
    /\ AuthFrame

\* users = load_users()
LoadUsers(s) ==
    /\ sessions[s].pc = "load_users"
    /\ sessions' = [sessions EXCEPT ![s].users = load_users(users),
                                    ![s].pc = "check"]
    /\ UNCHANGED <<users, ncalls>>
    /\ AuthFrame

\* if username in users: ... else: users[username] = {...}
CheckUsername(s) ==
    /\ sessions[s].pc = "check"
    /\ sessions' =
          IF sessions[s].form.username \in DOMAIN sessions[s].users
          THEN [sessions EXCEPT
                   ![s].message = "Username already exists! Please choose another.",
                   ![s].pc = "idle"]
          ELSE [sessions EXCEPT
                   ![s].users = (sessions[s].form.username
                                    :> new_user(sessions[s].form, now))
                                @@ sessions[s].users,
                   ![s].pc = "save_users"]
    /\ UNCHANGED <<users, ncalls>>
    /\ AuthFrame

\* save_users(users); st.success(...)
SaveUsers(s) ==
    /\ sessions[s].pc = "save_users"
    /\ users' = json_dump(sessions[s].users)
    /\ sessions' = [sessions EXCEPT
                       ![s].message = "Account created successfully! You can now login.",
                       ![s].succeeded =
                           @ \cup {[username |-> sessions[s].form.username,
                                    password |-> sessions[s].form.password,
                                    record |-> sessions[s].users[sessions[s].form.username]]},
                       ![s].pc = "idle"]
    /\ UNCHANGED ncalls
    /\ AuthFrame

NextAuth ==
    \E s \in Sessions : Submit(s) \/ LoadUsers(s) \/ CheckUsername(s) \/ SaveUsers(s)

SpecAuth == InitAuth /\ [][NextAuth]_vars

\* C30: no successful registration is lost or overwritten: once a
\* registration of a username with a password reported success, authenticate
\* of the two stays true and the stored record of the username stays the one
\* that was registered, whatever registrations follow and however the steps
\* of two sessions interleave.
C30_RegistrationsAreKept ==
    \A s \in Sessions :
       \A done \in sessions[s].succeeded :
          /\ authenticate(users, done.username, done.password)
          /\ load_users(users)[done.username] = done.record

====
